---- MODULE Spec2Model ----
(***************************************************************************)
(* Scene-timeline compositor and export multiplexer of the slideshow       *)
(* video tool: services/videoExporter.ts (exportVideo, exportAudioOnly),   *)
(* the Player component (timeline memo, global scrub) and the Storyboard   *)
(* duration field.                                                         *)
(*                                                                         *)
(* Times are integers in tenths of a second (the finest constant of the    *)
(* source is the 0.1 s scheduling lead of exportVideo).  JavaScript's      *)
(* undefined/null and NaN are the two sentinels Undefined and NaN.         *)
(* Sequence index k models the JavaScript array index k-1; 0 models "not   *)
(* found" (find -> undefined, findIndex -> -1).                            *)
(***************************************************************************)
EXTENDS Integers, Sequences, FiniteSets, TLC

VARIABLES
  scenes,          \* the Scene[] handed to the exporter / the Player
  pc,              \* position of the export call
  task,            \* per scene: state of its async load callback
  loadedScenes,    \* per scene: the record its load callback returned
  promise,         \* the promise exportVideo returned
  reason,          \* rejection reason of that promise
  timelineScenes,  \* exportVideo: timelineScenes
  totalDuration,   \* exportVideo / exportAudioOnly: totalDuration
  audioPlan,       \* exportAudioOnly: per scene, sceneDuration and offset
  recorder,        \* MediaRecorder state
  audioCtx,        \* AudioContext state
  sources,         \* audio buffer sources started: [scene, when, duration]
  clock,           \* audioCtx.currentTime
  audioStartTime,  \* exportVideo: audioStartTime
  painted,         \* last thing the render loop drew
  format,          \* options.format of the call: video or audio only
  selectedMimeType, \* the MIME type the recorder was created with
  blob,            \* the Blob assembled by recorder.onstop
  currentSceneIndex, \* Player state
  sceneTime,       \* Player: sceneProgress/100 * duration of the scene
  scrub,           \* Player: locals of the last handleGlobalScrub call
  progress,        \* the percent last passed to options.onProgress
  stopSignal,      \* the caller wants the running export to stop
  options,         \* set-up: options.format and options.aspectRatio of a call
  isTypeSupported, \* set-up: the MIME types MediaRecorder.isTypeSupported accepts
  frame,           \* set-up: canvas.width and canvas.height
  negotiated,      \* set-up: the selected MIME type and the type of the blob
  isExporting,     \* App state
  inFlight,        \* App: exportVideo calls of handleExportVideo not yet settled
  mode,            \* App state: storyboard or player
  showExportMenu,  \* Storyboard state
  focus,           \* the button that has the keyboard focus
  isPlaying,       \* Player state
  audioRef,        \* Player: the audio element, [src, state, time]
  rendered,        \* Player: the state the handlers of the last render closed over
  retry,           \* retryWithBackoff: arguments, calls of fn, waits and outcome
  generation       \* App.startGeneration and the regenerations in flight

sceneVars  == <<scenes>>
exportVars == <<pc, task, loadedScenes, promise, reason, timelineScenes,
                totalDuration, audioPlan, recorder, audioCtx, sources, clock,
                audioStartTime, painted, format, selectedMimeType, blob, progress>>
runVars    == <<format, selectedMimeType, blob>>
playerVars == <<currentSceneIndex, sceneTime, scrub, isPlaying, audioRef, rendered>>
setupVars  == <<options, isTypeSupported, frame, negotiated>>
appVars    == <<isExporting, inFlight, mode, showExportMenu, focus>>
otherVars  == <<stopSignal, setupVars, appVars, retry, generation>>
vars == <<scenes, pc, task, loadedScenes, promise, reason, timelineScenes,
          totalDuration, audioPlan, recorder, audioCtx, sources, clock,
          audioStartTime, painted, format, selectedMimeType, blob,
          currentSceneIndex, sceneTime, scrub, progress, stopSignal,
          options, isTypeSupported, frame, negotiated,
          isExporting, inFlight, mode, showExportMenu, focus,
          isPlaying, audioRef, rendered, retry, generation>>

-----------------------------------------------------------------------------
(* Units, sentinels and bounds *)

TicksPerSecond == 10
Undefined == -1000
NaN == -999
\* -Infinity, the quotient of a negative number and 0
NegInfinity == -1001

\* `|| 5`: the duration of a scene with no usable duration at all
DefaultDuration == 5 * TicksPerSecond
\* `audioCtx.currentTime + 0.1`
Epoch == 1

MaxScenes == 3        \* longest scene list of the timeline specification
MaxExportScenes == 3  \* longest scene list of the export state machine
MaxStep == 3          \* largest advance of the audio clock between two polls

\* `setTimeout(r, 500)`: the poll interval of the loop of exportAudioOnly
AudioPollInterval == 5

-----------------------------------------------------------------------------
(* JavaScript arithmetic used by the duration formulas *)

IsNumber(x) == x # Undefined /\ x # NaN

\* truthiness of a number | undefined
Truthy(x) == IsNumber(x) /\ x # 0

\* a || b
Or(a, b) == IF Truthy(a) THEN a ELSE b

\* Math.max(a, b): NaN as soon as one argument is not a number
MathMax(a, b) ==
  IF ~IsNumber(a) \/ ~IsNumber(b) THEN NaN
  ELSE IF a >= b THEN a ELSE b

\* parseFloat(e.target.value) of a number input: the text typed, or NaN
ParseFloat(text) == IF text = Undefined THEN NaN ELSE text

-----------------------------------------------------------------------------
(* Duration of a scene *)

\* faulty variant: the manual/estimated duration alone, the audio length ignored
FinalDurationIgnoringAudio(audioBuffer, scene) ==
  Or(Or(scene.manualDuration, scene.estimatedDuration), DefaultDuration)

\* faulty variant: the duration the specification document describes
FinalDurationMaxOfAll(audioBuffer, scene) ==
  MathMax(MathMax(Or(scene.manualDuration, 0), Or(audioBuffer, 0)),
          MathMax(Or(scene.estimatedDuration, 0), TicksPerSecond))

\* exportVideo: Math.max(audioBuffer?.duration || 0,
\*                       scene.manualDuration || scene.estimatedDuration || 5)
\* audioBuffer is the decoded duration, or Undefined for a null buffer.
FinalDuration(audioBuffer, scene) ==
  MathMax(Or(audioBuffer, 0),
          Or(Or(scene.manualDuration, scene.estimatedDuration), DefaultDuration))

\* exportAudioOnly: Math.max(buffer?.duration || 0,
\*                           scene.manualDuration || scene.estimatedDuration || 5)
SceneDuration(buffer, scene) ==
  MathMax(Or(buffer, 0),
          Or(Or(scene.manualDuration, scene.estimatedDuration), DefaultDuration))

\* Player: Math.max(s.manualDuration || s.audioDuration || s.estimatedDuration || 5,
\*                  s.audioDuration || 0)
PlayerDuration(s) ==
  MathMax(Or(Or(Or(s.manualDuration, s.audioDuration), s.estimatedDuration),
             DefaultDuration),
          Or(s.audioDuration, 0))

-----------------------------------------------------------------------------
(* Timelines *)

\* what a scene's load callback returns: { ...scene, img, audioBuffer, finalDuration }
LoadedScene(scene, audioBuffer) ==
  [scene |-> scene, audioBuffer |-> audioBuffer,
   finalDuration |-> FinalDuration(audioBuffer, scene)]

RECURSIVE TimelineFrom(_, _, _)
\* the map callback of "Calculate Timeline", from index k with totalDuration = acc
TimelineFrom(loaded, k, acc) ==
  IF k > Len(loaded) THEN <<>>
  ELSE <<[scene |-> loaded[k].scene,
          audioBuffer |-> loaded[k].audioBuffer,
          finalDuration |-> loaded[k].finalDuration,
          startTime |-> acc,
          endTime |-> acc + loaded[k].finalDuration]>>
       \o TimelineFrom(loaded, k + 1, acc + loaded[k].finalDuration)

\* faulty variant: every scene placed at offset 0 (the accumulator is not carried along)
CalculateTimelineNoAccumulation(loaded) ==
  [k \in 1..Len(loaded) |->
     [scene |-> loaded[k].scene,
      audioBuffer |-> loaded[k].audioBuffer,
      finalDuration |-> loaded[k].finalDuration,
      startTime |-> 0,
      endTime |-> loaded[k].finalDuration]]

\* faulty variant: the entries laid out in the order of the scenes' sequence field
CalculateTimelineBySequence(loaded) ==
  TimelineFrom(SortSeq(loaded, LAMBDA a, b: a.scene.sequence < b.scene.sequence), 1, 0)

\* exportVideo: timelineScenes
CalculateTimeline(loaded) == TimelineFrom(loaded, 1, 0)

RECURSIVE SumFinal(_, _)
SumFinal(loaded, k) ==
  IF k = 0 THEN 0 ELSE SumFinal(loaded, k - 1) + loaded[k].finalDuration

\* faulty variant: the last scene is left out of the total
TotalOfAllButLast(loaded) ==
  IF Len(loaded) = 0 THEN 0 ELSE SumFinal(loaded, Len(loaded) - 1)

\* exportVideo: totalDuration after the map (totalDuration += s.finalDuration)
TotalOf(loaded) == SumFinal(loaded, Len(loaded))

RECURSIVE AudioPlanFrom(_, _, _, _)
\* exportAudioOnly: the forEach that schedules the buffers; each element keeps the
\* scene's sceneDuration and the offset (totalDuration before the scene was added)
AudioPlanFrom(scns, buffers, k, acc) ==
  IF k > Len(scns) THEN <<>>
  ELSE LET d == SceneDuration(buffers[k], scns[k]) IN
       <<[scene |-> scns[k], buffer |-> buffers[k], sceneDuration |-> d,
          offset |-> acc]>>
       \o AudioPlanFrom(scns, buffers, k + 1, acc + d)

AudioPlan(scns, buffers) == AudioPlanFrom(scns, buffers, 1, 0)

RECURSIVE SumScene(_, _)
SumScene(plan, k) ==
  IF k = 0 THEN 0 ELSE SumScene(plan, k - 1) + plan[k].sceneDuration

\* exportAudioOnly: totalDuration after the forEach
AudioTotal(plan) == SumScene(plan, Len(plan))

RECURSIVE PlayerTimelineFrom(_, _, _)
\* Player: the useMemo map callback, from index k with accumulated = acc
PlayerTimelineFrom(scns, k, acc) ==
  IF k > Len(scns) THEN <<>>
  ELSE LET duration == PlayerDuration(scns[k]) IN
       <<[scene |-> scns[k], duration |-> duration, start |-> acc,
          end |-> acc + duration]>>
       \o PlayerTimelineFrom(scns, k + 1, acc + duration)

\* Player: timeline (recomputed by useMemo whenever scenes changes)
timeline == PlayerTimelineFrom(scenes, 1, 0)

\* Player: totalDuration
playerTotalDuration ==
  LET tl == timeline IN IF Len(tl) > 0 THEN tl[Len(tl)].end ELSE 0

-----------------------------------------------------------------------------
(* Scene lookup *)

\* smallest element of a non-empty set of indices
First(S) == CHOOSE k \in S : \A j \in S : k <= j

\* faulty variant: intervals closed on the right
FindSceneClosed(tl, t) ==
  LET hits == {k \in 1..Len(tl) : t >= tl[k].startTime /\ t <= tl[k].endTime}
  IN IF hits = {} THEN 0 ELSE First(hits)

\* renderLoop: timelineScenes.find(s => elapsedSecs >= s.startTime && elapsedSecs < s.endTime)
FindScene(tl, t) ==
  LET hits == {k \in 1..Len(tl) : t >= tl[k].startTime /\ t < tl[k].endTime}
  IN IF hits = {} THEN 0 ELSE First(hits)

\* handleGlobalScrub: timeline.findIndex(s => targetTime >= s.start && targetTime < s.end)
FindIndex(tl, t) ==
  LET hits == {k \in 1..Len(tl) : t >= tl[k].start /\ t < tl[k].end}
  IN IF hits = {} THEN 0 ELSE First(hits)

-----------------------------------------------------------------------------
(* Scene lists under test *)

\* a Scene as analyzeScript creates it and asset generation fills it in.
\* audio = Undefined: the scene has no audioUrl; otherwise the length of the clip
\* behind audioUrl, which decodeAudioData reports and which audioDuration holds
\* when the metadata probe of the generation step succeeded (known).
Scene(i, est, audio, known, image) ==
  [id |-> i, sequence |-> i - 1,
   estimatedDuration |-> est,
   manualDuration |-> Undefined,
   imageUrl |-> image,
   audioUrl |-> (audio # Undefined),
   clip |-> audio,
   audioDuration |-> IF known THEN audio ELSE Undefined,
   status |-> "ready"]

\* a single scene, every kind of duration input
RichScenes ==
  {Scene(1, est, a[1], a[2], TRUE) :
     est \in {Undefined, 3 * TicksPerSecond, 5 * TicksPerSecond, 6 * TicksPerSecond},
     a \in {<<Undefined, FALSE>>, <<4 * TicksPerSecond, TRUE>>,
            <<65, TRUE>>, <<4 * TicksPerSecond, FALSE>>}}

\* what may be typed into a duration field of a single-scene project:
\* nothing (Undefined), 0, -1, 0.5, 3 or 8 seconds
RichTexts == {Undefined, 0, -10, 5, 30, 80}

\* scenes of the longer lists
ListScene(i, c) == Scene(i, c[1], c[2], c[2] # Undefined, TRUE)

\* <<estimatedDuration, clip>> of the scenes of the longer lists
ListChoices ==
  {<<5 * TicksPerSecond, 4 * TicksPerSecond>>, <<3 * TicksPerSecond, Undefined>>,
   <<6 * TicksPerSecond, 65>>, <<3 * TicksPerSecond, 4 * TicksPerSecond>>,
   <<6 * TicksPerSecond, Undefined>>}

ListTexts == {-10}

\* the array given to the exporter need not be in the order of sequence
Reverse(s) == [k \in 1..Len(s) |-> s[Len(s) + 1 - k]]

SceneLists(n) ==
  LET asc == {[k \in 1..n |-> ListScene(k, cs[k])] : cs \in [1..n -> ListChoices]}
  IN asc \cup {Reverse(s) : s \in asc}

TimelineInputs ==
  {<<>>} \cup {<<s>> : s \in RichScenes}
         \cup UNION {SceneLists(n) : n \in 2..MaxScenes}

Texts(n) == IF n = 1 THEN RichTexts ELSE ListTexts

NoReason == [msg |-> "none", sequence |-> Undefined]

NoBlob == [size |-> "none", type |-> "none"]

\* state of an export that has not been called
ExportIdle ==
  /\ pc = "idle"
  /\ task = <<>>
  /\ loadedScenes = <<>>
  /\ promise = "none"
  /\ reason = NoReason
  /\ timelineScenes = <<>>
  /\ totalDuration = 0
  /\ audioPlan = <<>>
  /\ recorder = "none"
  /\ audioCtx = "none"
  /\ sources = {}
  /\ clock = 0
  /\ audioStartTime = 0
  /\ painted = [t |-> 0, scene |-> 0, kind |-> "none"]
  /\ format = "none"
  /\ selectedMimeType = "unset"
  /\ blob = NoBlob
  /\ progress = Undefined

\* new Audio(): no source
NoAudio == [src |-> 0, state |-> "empty", time |-> 0]

\* useState(false), useState(initialSceneIndex = 0), useState(0)
PlayerState0 ==
  /\ currentSceneIndex = 1
  /\ sceneTime = 0
  /\ scrub = [targetTime |-> 0, targetSceneIndex |-> 0]
  /\ isPlaying = FALSE
  /\ rendered = [index |-> 1, time |-> 0, isPlaying |-> FALSE]

\* no Player is mounted
PlayerIdle ==
  /\ PlayerState0
  /\ audioRef = NoAudio

NoFrame == [width |-> 0, height |-> 0]

NoNegotiation == [selectedMimeType |-> "unset", blobType |-> "unset"]

\* no call has been set up
SetupIdle ==
  /\ options = [format |-> "none", aspectRatio |-> "none"]
  /\ isTypeSupported = {}
  /\ frame = NoFrame
  /\ negotiated = NoNegotiation

\* App showing the storyboard of a project (setMode('storyboard')), nothing being
\* exported: isExporting useState(false); Storyboard: showExportMenu useState(false)
AppIdle ==
  /\ isExporting = FALSE
  /\ inFlight = 0
  /\ mode = "storyboard"
  /\ showExportMenu = FALSE
  /\ focus = "none"

\* retryWithBackoff has not been called
RetryIdle ==
  [phase |-> "idle", retries |-> 0, delay |-> 0, calls |-> 0, waits |-> <<>>,
   error |-> "none", thrown |-> "none", defaults |-> FALSE]

\* startGeneration has not been called and nothing is being regenerated
GenerationIdle ==
  [pc |-> "idle", i |-> 0, newScenes |-> <<>>, shared |-> {}, regenerations |-> {},
   last |-> <<>>]

OtherIdle ==
  /\ stopSignal = FALSE
  /\ SetupIdle
  /\ AppIdle
  /\ retry = RetryIdle
  /\ generation = GenerationIdle

-----------------------------------------------------------------------------
(* Editing a duration *)

\* Storyboard duration field, onChange:
\*   onUpdateScene({ ...scene, manualDuration: parseFloat(e.target.value) })
\* with App.handleUpdateScene replacing the scene of that id.
UpdateSceneDuration(i, text) ==
  /\ pc = "idle"
  /\ scenes' = [scenes EXCEPT ![i].manualDuration = ParseFloat(text)]
  /\ UNCHANGED <<exportVars, playerVars, otherVars>>

-----------------------------------------------------------------------------
(* The timeline computations applied to a scene list *)

\* faulty variant: every source is started at the epoch itself
ScheduledSourcesAtEpoch(tl, start) ==
  {[scene |-> k, when |-> start, duration |-> tl[k].audioBuffer] :
     k \in {j \in 1..Len(tl) : tl[j].audioBuffer # Undefined}}

\* audio sources exportVideo starts: one per entry with a buffer, at start + startTime
ScheduledSources(tl, start) ==
  {[scene |-> k, when |-> start + tl[k].startTime, duration |-> tl[k].audioBuffer] :
     k \in {j \in 1..Len(tl) : tl[j].audioBuffer # Undefined}}

\* audio sources exportAudioOnly starts: startTime + totalDuration so far
AudioOnlySources(plan, start) ==
  {[scene |-> k, when |-> start + plan[k].offset, duration |-> plan[k].buffer] :
     k \in {j \in 1..Len(plan) : plan[j].buffer # Undefined}}

\* exportVideo with every image loaded and every clip decoded: the loaded scenes,
\* the timeline and the schedule it computes
ResolveVideoTimeline ==
  /\ pc = "idle"
  /\ LET loaded == [k \in 1..Len(scenes) |-> LoadedScene(scenes[k], scenes[k].clip)]
     IN /\ loadedScenes' = loaded
        /\ timelineScenes' = CalculateTimeline(loaded)
        /\ totalDuration' = TotalOf(loaded)
        /\ audioStartTime' = clock + Epoch
        /\ sources' = ScheduledSources(CalculateTimeline(loaded), clock + Epoch)
  /\ pc' = "video_timeline"
  /\ UNCHANGED <<scenes, task, promise, reason, audioPlan, recorder, audioCtx,
                 clock, painted, runVars, progress, playerVars, otherVars>>

\* exportAudioOnly with every clip decoded: the durations and the schedule it computes
ResolveAudioPlan ==
  /\ pc = "idle"
  /\ LET plan == AudioPlan(scenes, [k \in 1..Len(scenes) |-> scenes[k].clip])
     IN /\ audioPlan' = plan
        /\ totalDuration' = AudioTotal(plan)
        /\ audioStartTime' = clock + Epoch
        /\ sources' = AudioOnlySources(plan, clock + Epoch)
  /\ pc' = "audio_plan"
  /\ UNCHANGED <<scenes, task, loadedScenes, promise, reason, timelineScenes,
                 recorder, audioCtx, clock, painted, runVars, progress,
                 playerVars, otherVars>>

InitTimeline ==
  /\ OtherIdle
  /\ scenes \in TimelineInputs
  /\ ExportIdle
  /\ PlayerIdle

NextTimeline ==
  \/ \E i \in 1..Len(scenes), text \in Texts(Len(scenes)) : UpdateSceneDuration(i, text)
  \/ ResolveVideoTimeline
  \/ ResolveAudioPlan

SpecTimeline == InitTimeline /\ [][NextTimeline]_vars

-----------------------------------------------------------------------------
(* exportVideo and exportAudioOnly as a state machine *)

\* scenes of the project that is exported:
\* <<estimatedDuration, clip, manualDuration, imageUrl, status>>
\* (short scenes: estimated 0.3 s, 0.6 s of audio)
ExportChoices ==
  {<<3, 6, Undefined, TRUE, "ready">>,      \* no manual duration
   <<3, 6, -10, TRUE, "ready">>,            \* manual -1 s
   <<3, Undefined, Undefined, TRUE, "ready">>, \* no audio URL
   <<3, 6, Undefined, FALSE, "error">>}     \* no image URL

ExportScene(i, c) ==
  [Scene(i, c[1], c[2], c[2] # Undefined, c[4])
     EXCEPT !.manualDuration = c[3], !.status = c[5]]

ExportInputs ==
  UNION {{[k \in 1..n |-> ExportScene(k, cs[k])] : cs \in [1..n -> ExportChoices]} :
           n \in 0..MaxExportScenes}

\* options.format: one of the video presets, or ExportFormat.AudioOnly
Formats == {"video", "audio_only"}

\* the preference lists of the two exporters
VideoMimeTypes ==
  <<"video/mp4; codecs=avc1.42E01E, mp4a.40.2",
    "video/mp4; codecs=avc1.64001E, mp4a.40.2",
    "video/mp4", "video/webm; codecs=vp9", "video/webm">>

AudioMimeTypes == <<"audio/mp4", "audio/aac", "audio/webm", "audio/ogg">>

\* the types MediaRecorder.isTypeSupported accepts: a runtime without any of the
\* listed types, one recording WebM only, one recording MP4 and WebM
Runtimes ==
  {{},
   {"video/webm; codecs=vp9", "video/webm", "audio/webm", "audio/ogg"},
   {"video/mp4; codecs=avc1.42E01E, mp4a.40.2", "video/mp4", "video/webm",
    "audio/mp4", "audio/webm"}}

\* faulty variant: the last supported entry of the list is taken
LastSupported(mimeTypes, supported) ==
  LET hits == {k \in 1..Len(mimeTypes) : mimeTypes[k] \in supported}
  IN IF hits = {} THEN "" ELSE mimeTypes[CHOOSE k \in hits : \A j \in hits : j <= k]

\* mimeTypes.find(type => MediaRecorder.isTypeSupported(type)) || ''
FirstSupported(mimeTypes, supported) ==
  LET hits == {k \in 1..Len(mimeTypes) : mimeTypes[k] \in supported}
  IN IF hits = {} THEN "" ELSE mimeTypes[First(hits)]

\* exportVideo: selectedMimeType, with its second look at video/mp4 and video/webm
SelectVideoMime(supported) ==
  LET found == FirstSupported(VideoMimeTypes, supported)
  IN IF found # "" THEN found
     ELSE IF "video/mp4" \in supported THEN "video/mp4"
     ELSE IF "video/webm" \in supported THEN "video/webm"
     ELSE ""

\* exportAudioOnly: selectedMime
SelectAudioMime(supported) == FirstSupported(AudioMimeTypes, supported)

\* new Blob(chunks, { type: selectedMimeType || 'video/mp4' }), resp. || 'audio/mp4'
BlobType ==
  IF selectedMimeType # "" THEN selectedMimeType
  ELSE IF format = "video" THEN "video/mp4" ELSE "audio/mp4"

\* the capture resources that exist: audio context and media-stream destination
\* from the start of the call, canvas stream, combined stream and recorder from
\* the recorder set-up (the audio-only export records the destination's stream)
Created ==
  (IF audioCtx # "none" THEN {"audioCtx", "dest"} ELSE {})
    \cup (IF recorder # "none" THEN {"recorder"} ELSE {})
    \cup (IF recorder # "none" /\ format = "video"
            THEN {"canvasStream", "combinedStream"} ELSE {})

\* a scene whose load callback has not returned yet
NotLoaded(scene) ==
  [scene |-> scene, audioBuffer |-> Undefined, finalDuration |-> Undefined]

\* what a load callback of exportAudioOnly returns: the buffer, or null
LoadedAudio(scene, buffer) ==
  [scene |-> scene, audioBuffer |-> buffer, finalDuration |-> Undefined]

\* what the load callback of the running export returns
CallbackResult(scene, buffer) ==
  IF format = "video" THEN LoadedScene(scene, buffer) ELSE LoadedAudio(scene, buffer)

\* faulty variant: the join continues as soon as one load callback has returned
SomeLoaded ==
  Len(task) = 0 \/ \E k \in 1..Len(task) : task[k] = "done"

\* Promise.all(scenes.map(...)) fulfils: every load callback has returned
AllLoaded == \A k \in 1..Len(task) : task[k] = "done"

\* Promise.all rejects: some load callback has thrown
SomeFailed == \E k \in 1..Len(task) : task[k] = "failed"

\* a settled Promise.all is continued (a microtask) before any other event is handled
JoinSettled == pc = "loading" /\ (SomeFailed \/ AllLoaded)

\* handleExportVideo: scenes.filter(s => s.status === 'ready' && s.imageUrl && s.audioUrl)
ReadyScenes(scns) ==
  LET ready(s) == s.status = "ready" /\ s.imageUrl /\ s.audioUrl
  IN SelectSeq(scns, ready)

\* exportVideo(list, { format: fmt }) up to `await Promise.all`.  Video: canvas and
\* audio context are created, onProgress(0, "Loading assets..."), every scene's
\* load callback is started; a scene without imageUrl rejects its image promise at
\* once.  Audio only: the audio context is created, onProgress(10, ...), a scene
\* without audioUrl returns null at once.
ExportVideo(list, fmt) ==
  /\ pc = "idle"
  /\ format' = fmt
  /\ task' = [k \in 1..Len(list) |->
                IF fmt = "video"
                  THEN IF list[k].imageUrl THEN "image" ELSE "failed"
                  ELSE IF list[k].audioUrl THEN "audio" ELSE "done"]
  /\ loadedScenes' = [k \in 1..Len(list) |-> NotLoaded(list[k])]
  /\ pc' = "loading"
  /\ promise' = "pending"
  /\ audioCtx' = "running"
  /\ progress' = IF fmt = "video" THEN 0 ELSE 10
  /\ UNCHANGED <<scenes, reason, timelineScenes, totalDuration, audioPlan, recorder,
                 sources, clock, audioStartTime, painted, selectedMimeType, blob,
                 playerVars, otherVars>>

\* handleExportVideo calls exportVideo with the ready scenes, unless there are none
ExportVideoStart ==
  /\ Len(ReadyScenes(scenes)) # 0
  /\ \E fmt \in Formats : ExportVideo(ReadyScenes(scenes), fmt)

\* exportVideo is an export of its module: a call with the scene list as it is
ExportVideoDirect ==
  \E fmt \in Formats : ExportVideo(scenes, fmt)

\* a load callback is still running (also after the export has already failed)
LoadRunning(k) ==
  /\ pc \in {"loading", "failed"}
  /\ ~JoinSettled
  /\ k \in 1..Len(task)

\* img.onload: the callback goes on to the audio, or returns when there is none
ImageLoaded(k) ==
  /\ LoadRunning(k)
  /\ task[k] = "image"
  /\ IF loadedScenes[k].scene.audioUrl
       THEN /\ task' = [task EXCEPT ![k] = "audio"]
            /\ UNCHANGED loadedScenes
       ELSE /\ task' = [task EXCEPT ![k] = "done"]
            /\ loadedScenes' = [loadedScenes EXCEPT
                                  ![k] = LoadedScene(loadedScenes[k].scene, Undefined)]
  /\ UNCHANGED <<scenes, pc, promise, reason, timelineScenes, totalDuration, audioPlan,
                 recorder, audioCtx, sources, clock, audioStartTime, painted, runVars,
                 progress, playerVars, otherVars>>

\* img.onerror: the callback throws "Failed to load image for scene <sequence>"
ImageError(k) ==
  /\ LoadRunning(k)
  /\ task[k] = "image"
  /\ task' = [task EXCEPT ![k] = "failed"]
  /\ UNCHANGED <<scenes, pc, loadedScenes, promise, reason, timelineScenes, totalDuration,
                 audioPlan, recorder, audioCtx, sources, clock, audioStartTime, painted,
                 runVars, progress, playerVars, otherVars>>

\* fetch and decodeAudioData succeed: the callback returns with the buffer
AudioDecoded(k) ==
  /\ LoadRunning(k)
  /\ task[k] = "audio"
  /\ task' = [task EXCEPT ![k] = "done"]
  /\ loadedScenes' = [loadedScenes EXCEPT
                        ![k] = CallbackResult(loadedScenes[k].scene,
                                              loadedScenes[k].scene.clip)]
  /\ UNCHANGED <<scenes, pc, promise, reason, timelineScenes, totalDuration, audioPlan,
                 recorder, audioCtx, sources, clock, audioStartTime, painted, runVars,
                 progress, playerVars, otherVars>>

\* faulty variant: a failed fetch or decode makes the load callback throw
AudioFailedFatal(k) ==
  /\ LoadRunning(k)
  /\ task[k] = "audio"
  /\ task' = [task EXCEPT ![k] = "failed"]
  /\ UNCHANGED <<scenes, pc, loadedScenes, promise, reason, timelineScenes, totalDuration,
                 audioPlan, recorder, audioCtx, sources, clock, audioStartTime, painted,
                 runVars, progress, playerVars, otherVars>>

\* fetch or decodeAudioData throws: caught, the callback returns with a null buffer
AudioFailed(k) ==
  /\ LoadRunning(k)
  /\ task[k] = "audio"
  /\ task' = [task EXCEPT ![k] = "done"]
  /\ loadedScenes' = [loadedScenes EXCEPT
                        ![k] = CallbackResult(loadedScenes[k].scene, Undefined)]
  /\ UNCHANGED <<scenes, pc, promise, reason, timelineScenes, totalDuration, audioPlan,
                 recorder, audioCtx, sources, clock, audioStartTime, painted, runVars,
                 progress, playerVars, otherVars>>

\* the rejection of the first failed load callback rejects Promise.all and with it
\* the promise of exportVideo
AssetsRejected ==
  /\ pc = "loading"
  /\ SomeFailed
  /\ LET k == First({j \in 1..Len(task) : task[j] = "failed"})
     IN reason' = IF loadedScenes[k].scene.imageUrl
                    THEN [msg |-> "Failed to load image for scene",
                          sequence |-> loadedScenes[k].scene.sequence]
                    ELSE [msg |-> "No image URL", sequence |-> Undefined]
  /\ promise' = "rejected"
  /\ pc' = "failed"
  /\ UNCHANGED <<scenes, task, loadedScenes, timelineScenes, totalDuration, audioPlan,
                 recorder, audioCtx, sources, clock, audioStartTime, painted, runVars,
                 progress, playerVars, otherVars>>

\* exportVideo, Promise.all fulfilled: the timeline is calculated, the streams are
\* set up, the MIME type is selected on a runtime supporting `supported`, the
\* MediaRecorder is created, and the executor runs up to `await audioCtx.resume()`
AssetsLoaded(supported) ==
  /\ pc = "loading"
  /\ format = "video"
  /\ ~SomeFailed
  /\ AllLoaded
  /\ timelineScenes' = CalculateTimeline(loadedScenes)
  /\ totalDuration' = TotalOf(loadedScenes)
  /\ selectedMimeType' = SelectVideoMime(supported)
  /\ recorder' = "inactive"
  /\ pc' = "resuming"
  /\ UNCHANGED <<scenes, task, loadedScenes, promise, reason, audioPlan, audioCtx,
                 sources, clock, audioStartTime, painted, format, blob, progress,
                 playerVars, otherVars>>

\* exportAudioOnly, Promise.all fulfilled: the MIME type is selected, the
\* MediaRecorder is created and started, onProgress(30, "Mixing audio..."), and the
\* executor runs up to `await audioCtx.resume()`
AudioTracksLoaded(supported) ==
  /\ pc = "loading"
  /\ format = "audio_only"
  /\ AllLoaded
  /\ selectedMimeType' = SelectAudioMime(supported)
  /\ recorder' = "recording"
  /\ progress' = 30
  /\ pc' = "resuming"
  /\ UNCHANGED <<scenes, task, loadedScenes, promise, reason, timelineScenes,
                 totalDuration, audioPlan, audioCtx, sources, clock, audioStartTime,
                 painted, format, blob, playerVars, otherVars>>

\* Math.round(x) for x = num / den, den > 0: the integer nearest to x, halves
\* rounded up
MathRound(num, den) == (2 * num + den) \div (2 * den)

\* faulty variant: the percentage is not capped
PercentUncapped(elapsed, total) ==
  IF total = 0
    THEN IF elapsed < 0 THEN NegInfinity ELSE NaN
    ELSE MathRound(100 * elapsed, total)

\* Math.min(99, Math.round((elapsed / totalDuration) * 100)); the callers have
\* elapsed < totalDuration, and a negative elapsed over 0 is -Infinity
Percent(elapsed, total) ==
  IF total = 0
    THEN IF elapsed < 0 THEN NegInfinity ELSE NaN
    ELSE LET p == MathRound(100 * elapsed, total)
         IN IF p < 99 THEN p ELSE 99

\* faulty variant: the elapsed time is the previous one plus one poll interval
ElapsedByPollInterval(now, start) == painted.t + 1

\* Math.max(0, currentAudioTime - audioStartTime)
ElapsedSecs(now, start) == IF now - start > 0 THEN now - start ELSE 0

\* one pass of the while loop of renderLoop at audio-clock time now: leave the
\* loop and stop the recorder, or paint the active scene (or the fallback) and wait
RenderPass(now, start) ==
  LET elapsedSecs == ElapsedSecs(now, start)
      currentScene == FindScene(timelineScenes, elapsedSecs)
  IN IF elapsedSecs >= totalDuration
       THEN /\ pc' = "stopping"
            /\ recorder' = "stopping"
            /\ UNCHANGED <<painted, progress>>
       ELSE /\ pc' = "waiting"
            /\ recorder' = "recording"
            /\ painted' = [t |-> elapsedSecs, scene |-> currentScene,
                           kind |-> IF currentScene # 0 THEN "scene" ELSE "fallback"]
            /\ progress' = Percent(elapsedSecs, totalDuration)

\* exportVideo, audioCtx.resume() fulfilled, d after the context was created: all
\* audio is scheduled, the recorder started and the first pass of renderLoop made
Resumed(d) ==
  /\ pc = "resuming"
  /\ format = "video"
  /\ clock' = clock + d
  /\ audioStartTime' = clock' + Epoch
  /\ sources' = ScheduledSources(timelineScenes, clock' + Epoch)
  /\ RenderPass(clock', clock' + Epoch)
  /\ UNCHANGED <<scenes, task, loadedScenes, promise, reason, timelineScenes,
                 totalDuration, audioPlan, audioCtx, runVars, playerVars, otherVars>>

\* one pass of the while loop of exportAudioOnly: elapsed is not clamped
AudioLoopPass(now, start, total) ==
  LET elapsed == now - start
  IN IF elapsed >= total
       THEN /\ pc' = "stopping"
            /\ recorder' = "stopping"
            /\ UNCHANGED progress
       ELSE /\ pc' = "waiting"
            /\ progress' = Percent(elapsed, total)
            /\ UNCHANGED recorder

\* exportAudioOnly, audioCtx.resume() fulfilled: the scene durations are computed
\* and the audio is scheduled in one forEach, then the first pass of the loop
AudioResumed(d) ==
  /\ pc = "resuming"
  /\ format = "audio_only"
  /\ clock' = clock + d
  /\ audioStartTime' = clock' + Epoch
  /\ LET plan == AudioPlan([k \in 1..Len(loadedScenes) |-> loadedScenes[k].scene],
                           [k \in 1..Len(loadedScenes) |-> loadedScenes[k].audioBuffer])
     IN /\ audioPlan' = plan
        /\ totalDuration' = AudioTotal(plan)
        /\ sources' = AudioOnlySources(plan, clock' + Epoch)
        /\ AudioLoopPass(clock', clock' + Epoch, AudioTotal(plan))
  /\ UNCHANGED <<scenes, task, loadedScenes, promise, reason, timelineScenes,
                 audioCtx, painted, runVars, playerVars, otherVars>>

\* audioCtx.resume() rejected: the async executor throws, nobody settles the promise
ResumeRejected ==
  /\ pc = "resuming"
  /\ pc' = "hung"
  /\ UNCHANGED <<scenes, task, loadedScenes, promise, reason, timelineScenes,
                 totalDuration, audioPlan, recorder, audioCtx, sources, clock,
                 audioStartTime, painted, runVars, progress, playerVars, otherVars>>

\* faulty variant: each pass of the loop schedules the audio anew, from its own clock
RenderLoopStepRescheduling(d) ==
  /\ pc = "waiting"
  /\ format = "video"
  /\ clock' = clock + d
  /\ sources' = ScheduledSources(timelineScenes, clock' + Epoch)
  /\ RenderPass(clock', audioStartTime)
  /\ UNCHANGED <<scenes, task, loadedScenes, promise, reason, timelineScenes,
                 totalDuration, audioPlan, audioCtx, audioStartTime, runVars,
                 playerVars, otherVars>>

\* the 33 ms timer of renderLoop fires, the audio clock having advanced by d:
\* the next pass of the loop
RenderLoopStep(d) ==
  /\ pc = "waiting"
  /\ format = "video"
  /\ clock' = clock + d
  /\ RenderPass(clock', audioStartTime)
  /\ UNCHANGED <<scenes, task, loadedScenes, promise, reason, timelineScenes,
                 totalDuration, audioPlan, audioCtx, sources, audioStartTime, runVars,
                 playerVars, otherVars>>

\* the 500 ms timer of the loop of exportAudioOnly fires, the audio clock having
\* advanced by the poll interval and d more
AudioLoopStep(d) ==
  /\ pc = "waiting"
  /\ format = "audio_only"
  /\ clock' = clock + AudioPollInterval + d
  /\ AudioLoopPass(clock', audioStartTime, totalDuration)
  /\ UNCHANGED <<scenes, task, loadedScenes, promise, reason, timelineScenes,
                 totalDuration, audioPlan, audioCtx, sources, audioStartTime, painted,
                 runVars, playerVars, otherVars>>

\* exportVideo: recorder.onerror = (e) => reject(e)
RecorderError ==
  /\ pc = "waiting"
  /\ format = "video"
  /\ recorder = "recording"
  /\ promise = "pending"
  /\ promise' = "rejected"
  /\ reason' = [msg |-> "recorder error", sequence |-> Undefined]
  /\ UNCHANGED <<scenes, pc, task, loadedScenes, timelineScenes, totalDuration,
                 audioPlan, recorder, audioCtx, sources, clock, audioStartTime, painted,
                 runVars, progress, playerVars, otherVars>>

\* faulty variant: recorder.onstop resolves with whatever blob was assembled
RecorderStoppedResolving(empty) ==
  /\ pc = "stopping"
  /\ pc' = "done"
  /\ recorder' = "stopped"
  /\ audioCtx' = "closed"
  /\ blob' = [size |-> IF empty THEN "empty" ELSE "data", type |-> BlobType]
  /\ IF promise # "pending"
       THEN UNCHANGED <<promise, reason>>
       ELSE /\ promise' = "resolved"
            /\ UNCHANGED reason
  /\ UNCHANGED <<scenes, task, loadedScenes, timelineScenes, totalDuration, audioPlan,
                 sources, clock, audioStartTime, painted, format, selectedMimeType,
                 progress, playerVars, otherVars>>

\* recorder.onstop: the blob is assembled, tracks and audio context are released,
\* and the promise is rejected for an empty blob, resolved otherwise
RecorderStopped(empty) ==
  /\ pc = "stopping"
  /\ pc' = "done"
  /\ recorder' = "stopped"
  /\ audioCtx' = "closed"
  /\ blob' = [size |-> IF empty THEN "empty" ELSE "data", type |-> BlobType]
  /\ IF promise # "pending"
       THEN UNCHANGED <<promise, reason>>
       ELSE IF empty
         THEN /\ promise' = "rejected"
              /\ reason' = [msg |-> IF format = "video"
                                      THEN "Recording failed: Output file is empty."
                                      ELSE "Audio export failed: Empty file",
                            sequence |-> Undefined]
         ELSE /\ promise' = "resolved"
              /\ UNCHANGED reason
  /\ UNCHANGED <<scenes, task, loadedScenes, timelineScenes, totalDuration, audioPlan,
                 sources, clock, audioStartTime, painted, format, selectedMimeType,
                 progress, playerVars, otherVars>>

\* how long after the creation of the audio context audioCtx.resume() is fulfilled
ResumeDelays == {0, MaxStep}

Init ==
  /\ OtherIdle
  /\ scenes \in ExportInputs
  /\ ExportIdle
  /\ PlayerIdle

\* the load of some scene settles
LoadSettles ==
  \E k \in 1..Len(scenes) :
    ImageLoaded(k) \/ ImageError(k) \/ AudioDecoded(k) \/ AudioFailed(k)

\* the continuation of the settled Promise.all runs
JoinContinues ==
  \/ AssetsRejected
  \/ \E supported \in Runtimes : AssetsLoaded(supported) \/ AudioTracksLoaded(supported)

\* the loop is polled again with the audio clock having advanced
ClockAdvances ==
  \E d \in 1..MaxStep : RenderLoopStep(d) \/ AudioLoopStep(d)

Next ==
  \/ ExportVideoStart
  \/ ExportVideoDirect
  \/ \E k \in 1..Len(scenes) : ImageLoaded(k)
  \/ \E k \in 1..Len(scenes) : ImageError(k)
  \/ \E k \in 1..Len(scenes) : AudioDecoded(k)
  \/ \E k \in 1..Len(scenes) : AudioFailed(k)
  \/ AssetsRejected
  \/ \E supported \in Runtimes : AssetsLoaded(supported)
  \/ \E supported \in Runtimes : AudioTracksLoaded(supported)
  \/ \E d \in ResumeDelays : Resumed(d)
  \/ \E d \in ResumeDelays : AudioResumed(d)
  \/ ResumeRejected
  \/ \E d \in 0..MaxStep : RenderLoopStep(d)
  \/ \E d \in 0..MaxStep : AudioLoopStep(d)
  \/ RecorderError
  \/ \E empty \in BOOLEAN : RecorderStopped(empty)

Spec == Init /\ [][Next]_vars

\* the caller wants the export that is in its loop to stop.  ExportOptions has
\* aspectRatio, format and onProgress only: nothing carries the wish into the
\* call, and no step of it reads it.
StopRequested ==
  /\ pc = "waiting"
  /\ ~stopSignal
  /\ stopSignal' = TRUE
  /\ UNCHANGED <<sceneVars, exportVars, playerVars, setupVars, appVars, retry, generation>>

NextAbort ==
  \/ Next
  \/ StopRequested

\* the export with a caller that may want it stopped
SpecAbort == Init /\ [][NextAbort]_vars

\* the export under the assumptions that every asset load settles, that the
\* continuations of settled promises run, that audioCtx.resume() settles, that
\* the audio clock keeps advancing and that the stopped recorder fires onstop
LiveSpec ==
  /\ Spec
  /\ WF_vars(LoadSettles)
  /\ WF_vars(JoinContinues)
  /\ WF_vars((\E d \in ResumeDelays : Resumed(d) \/ AudioResumed(d)) \/ ResumeRejected)
  /\ WF_vars(ClockAdvances)
  /\ WF_vars(\E empty \in BOOLEAN : RecorderStopped(empty))

-----------------------------------------------------------------------------
(* The Player: playback, skipping, seeking on the global timeline, editing the
   scene duration *)

\* most the playback time advances between two animation frames
MaxFrame == 3

\* largest value of currentSceneIndex (counted from 1) that is followed up
MaxSceneIndex == 4

\* the handlers and effects of the last render have closed over the current state
Current ==
  rendered = [index |-> currentSceneIndex, time |-> sceneTime, isPlaying |-> isPlaying]

Snapshot(index, time, playing) == [index |-> index, time |-> time, isPlaying |-> playing]

\* the scene-loading effect for the scene at index: audio.pause(), and with an
\* audioUrl src is set, load() called and, when playing, play(); without one the
\* source is cleared (src |-> -1)
LoadSceneAudio(index, playing) ==
  IF scenes[index].audioUrl
    THEN [src |-> index, state |-> IF playing THEN "playing" ELSE "paused", time |-> 0]
    ELSE [src |-> -1, state |-> "empty", time |-> 0]

\* audio.duration of the loaded source
AudioLength == IF audioRef.src > 0 THEN scenes[audioRef.src].clip ELSE 0

\* `!audio || !audio.src`: true for an element that never had a source; for one
\* whose src was set to '' the attribute reads '' or the document's URL,
\* depending on the browser
HasNoAudio(readsEmpty) == audioRef.src = 0 \/ (audioRef.src = -1 /\ readsEmpty)

\* handleSceneEnd of a render that closed over currentSceneIndex = index:
\*   if (currentSceneIndex < timeline.length - 1) setCurrentSceneIndex(prev => prev + 1)
\*   else { setIsPlaying(false); setCurrentSceneIndex(0); setSceneProgress(0) }
HandleSceneEnd(index) ==
  IF index < Len(scenes)
    THEN /\ currentSceneIndex' = currentSceneIndex + 1
         /\ UNCHANGED <<isPlaying, sceneTime>>
    ELSE /\ isPlaying' = FALSE
         /\ currentSceneIndex' = 1
         /\ sceneTime' = 0

\* the audio plays on by d; the animation frame of the loop sets the progress to
\* audio.currentTime / duration, and the component renders again
AudioPlays(d) ==
  /\ Current
  /\ isPlaying
  /\ audioRef.state = "playing"
  /\ audioRef.time + d < AudioLength
  /\ audioRef' = [audioRef EXCEPT !.time = @ + d]
  /\ sceneTime' = audioRef.time + d
  /\ rendered' = Snapshot(currentSceneIndex, sceneTime', isPlaying)
  /\ UNCHANGED <<sceneVars, exportVars, otherVars, currentSceneIndex, scrub, isPlaying>>

\* the audio reaches its end: the element is paused and ended, and the 'ended'
\* event runs audio.onended, the handler bound by the last render
AudioEnds ==
  /\ currentSceneIndex < MaxSceneIndex
  /\ audioRef.state = "playing"
  /\ audioRef' = [audioRef EXCEPT !.state = "ended", !.time = AudioLength]
  /\ HandleSceneEnd(rendered.index)
  /\ UNCHANGED <<sceneVars, exportVars, otherVars, scrub, rendered>>

\* an animation frame of updateLoop, d after the last one, that takes the manual
\* timer: the loop of the last render, with the scene data and the progress it
\* closed over
TimerTick(d, readsEmpty) ==
  /\ currentSceneIndex < MaxSceneIndex
  /\ rendered.isPlaying
  /\ rendered.index \in 1..Len(scenes)
  /\ ~(audioRef.state = "playing" /\ AudioLength > 0)
  /\ LET duration == timeline[rendered.index].duration
         currentSceneTime == rendered.time
         isAudioFinished == audioRef.state = "ended"
         newTime == currentSceneTime + d
     IN /\ HasNoAudio(readsEmpty) \/ (isAudioFinished /\ currentSceneTime < duration)
        /\ IF newTime >= duration
             THEN HandleSceneEnd(rendered.index)
             ELSE /\ sceneTime' = newTime
                  /\ UNCHANGED <<currentSceneIndex, isPlaying>>
  /\ UNCHANGED <<sceneVars, exportVars, otherVars, scrub, audioRef, rendered>>

\* the component renders with the state set from an animation frame or an
\* 'ended' event, and its effects run: for a new index with a scene the
\* scene-loading effect (progress 0, the scene's audio), for isPlaying false the
\* pause of the play/pause effect; the handlers now close over this state
Render ==
  /\ ~Current
  /\ LET loads == currentSceneIndex # rendered.index /\ currentSceneIndex \in 1..Len(scenes)
     IN /\ sceneTime' = IF loads THEN 0 ELSE sceneTime
        /\ audioRef' = IF loads THEN LoadSceneAudio(currentSceneIndex, isPlaying)
                       ELSE IF ~isPlaying /\ audioRef.state = "playing"
                         THEN [audioRef EXCEPT !.state = "paused"]
                         ELSE audioRef
        /\ rendered' = Snapshot(currentSceneIndex, sceneTime', isPlaying)
  /\ UNCHANGED <<sceneVars, exportVars, otherVars, currentSceneIndex, scrub, isPlaying>>

\* togglePlay, with the play/pause effect: play() when there is a source and the
\* element is paused (an ended element starts over), pause() otherwise
TogglePlay ==
  /\ Current
  /\ isPlaying' = ~isPlaying
  /\ audioRef' =
       IF currentSceneIndex \notin 1..Len(scenes) THEN audioRef
       ELSE IF ~isPlaying
         THEN IF audioRef.src > 0 /\ audioRef.state \in {"paused", "ended"}
                THEN [audioRef EXCEPT !.state = "playing",
                                      !.time = IF audioRef.state = "ended" THEN 0 ELSE @]
                ELSE audioRef
         ELSE IF audioRef.state = "playing"
                THEN [audioRef EXCEPT !.state = "paused"]
                ELSE audioRef
  /\ rendered' = Snapshot(currentSceneIndex, sceneTime, isPlaying')
  /\ UNCHANGED <<sceneVars, exportVars, otherVars, currentSceneIndex, sceneTime, scrub>>

\* skip('next') and skip('prev'): the index (from 0 in the code, from 1 here) is
\* clamped to 0..timeline.length - 1; with the scene-loading effect
Skip(direction) ==
  /\ Current
  /\ LET jsIndex == currentSceneIndex - 1
         stepped == IF direction = "next" THEN jsIndex + 1 ELSE jsIndex - 1
         upper == IF stepped < Len(scenes) - 1 THEN stepped ELSE Len(scenes) - 1
         newIndex == IF upper > 0 THEN upper ELSE 0
         loads == newIndex + 1 # currentSceneIndex /\ newIndex + 1 \in 1..Len(scenes)
     IN /\ currentSceneIndex' = newIndex + 1
        /\ sceneTime' = IF loads THEN 0 ELSE sceneTime
        /\ audioRef' = IF loads THEN LoadSceneAudio(newIndex + 1, isPlaying) ELSE audioRef
        /\ rendered' = Snapshot(newIndex + 1, sceneTime', isPlaying)
  /\ UNCHANGED <<sceneVars, exportVars, otherVars, scrub, isPlaying>>

\* handleGlobalScrub for a click at targetTime = percent * totalDuration: the
\* scene is looked up; when one is found it becomes the current scene with the
\* progress of targetTime - start and the audio is positioned; and, when the
\* index has changed, the scene-loading effect then runs: it loads the scene's
\* audio from its start and resets the progress to 0
HandleGlobalScrub(targetTime) ==
  LET tl == timeline
      targetSceneIndex == FindIndex(tl, targetTime)
      timeInScene == targetTime - tl[targetSceneIndex].start
  IN /\ Current
     /\ scrub' = [targetTime |-> targetTime, targetSceneIndex |-> targetSceneIndex]
     /\ IF targetSceneIndex # 0
          THEN /\ currentSceneIndex' = targetSceneIndex
               /\ IF targetSceneIndex # currentSceneIndex
                    THEN /\ sceneTime' = 0
                         /\ audioRef' = LoadSceneAudio(targetSceneIndex, isPlaying)
                    ELSE /\ sceneTime' = timeInScene
                         /\ audioRef' =
                              IF tl[targetSceneIndex].scene.audioUrl
                                THEN [audioRef EXCEPT
                                        !.time = IF timeInScene < AudioLength
                                                   THEN timeInScene ELSE AudioLength,
                                        !.state = IF isPlaying THEN "playing" ELSE @]
                                ELSE audioRef
          ELSE UNCHANGED <<currentSceneIndex, sceneTime, audioRef>>
     /\ rendered' = Snapshot(currentSceneIndex', sceneTime', isPlaying)
     /\ UNCHANGED <<sceneVars, exportVars, otherVars, isPlaying>>

\* Player duration field, onChange: val = parseFloat(text);
\*   if (val > 0) onUpdateScene({ ...currentSceneData, manualDuration: val })
PlayerDurationInput(text) ==
  /\ Current
  /\ currentSceneIndex \in 1..Len(scenes)
  /\ LET val == ParseFloat(text) IN
       IF IsNumber(val) /\ val > 0
         THEN scenes' = [scenes EXCEPT ![currentSceneIndex].manualDuration = val]
         ELSE UNCHANGED scenes
  /\ UNCHANGED <<exportVars, playerVars, otherVars>>

PlayerTexts == {Undefined, -10, 8}

MaxPlayerScenes == 2

PlayerInputs == {list \in ExportInputs : Len(list) <= MaxPlayerScenes}

\* the Player mounted on a scene list: the audio element is created and the
\* scene-loading effect has run for the first scene, if there is one
InitPlayer ==
  /\ OtherIdle
  /\ scenes \in PlayerInputs
  /\ ExportIdle
  /\ PlayerState0
  /\ audioRef = IF Len(scenes) > 0 THEN LoadSceneAudio(1, FALSE) ELSE NoAudio

NextPlayer ==
  \/ \E d \in 1..MaxFrame : AudioPlays(d)
  \/ AudioEnds
  \/ \E d \in 1..MaxFrame, readsEmpty \in BOOLEAN : TimerTick(d, readsEmpty)
  \/ Render
  \/ TogglePlay
  \/ \E direction \in {"prev", "next"} : Skip(direction)
  \/ \E targetTime \in 0..playerTotalDuration : HandleGlobalScrub(targetTime)
  \/ \E text \in PlayerTexts : PlayerDurationInput(text)

SpecPlayer == InitPlayer /\ [][NextPlayer]_vars

-----------------------------------------------------------------------------
(* The set-up of a call: output resolution and codec negotiation *)

\* enum ExportFormat
ExportFormats == {"video_720p", "video_1080p", "video_2k", "video_4k", "audio_only"}

\* enum ImageAspect
ImageAspects == {"16:9", "9:16", "1:1"}

\* every MIME type one of the two exporters asks the runtime about
ListedMimeTypes ==
  {VideoMimeTypes[k] : k \in 1..Len(VideoMimeTypes)}
    \cup {AudioMimeTypes[k] : k \in 1..Len(AudioMimeTypes)}

\* switch (format): baseWidth and baseHeight
BaseResolution(fmt) ==
  CASE fmt = "video_720p"  -> [baseWidth |-> 1280, baseHeight |-> 720]
    [] fmt = "video_1080p" -> [baseWidth |-> 1920, baseHeight |-> 1080]
    [] fmt = "video_2k"    -> [baseWidth |-> 2560, baseHeight |-> 1440]
    [] fmt = "video_4k"    -> [baseWidth |-> 3840, baseHeight |-> 2160]
    [] OTHER               -> [baseWidth |-> 1920, baseHeight |-> 1080]

\* faulty variant: the square frame is cut on the long edge of the base resolution
ResolutionSquareOnLongEdge(fmt, aspectRatio) ==
  LET base == BaseResolution(fmt)
  IN CASE aspectRatio = "9:16" -> [width |-> base.baseHeight, height |-> base.baseWidth]
       [] aspectRatio = "1:1"  -> [width |-> base.baseWidth, height |-> base.baseWidth]
       [] OTHER                -> [width |-> base.baseWidth, height |-> base.baseHeight]

\* "Adjust for Aspect Ratio": width and height of the canvas
Resolution(fmt, aspectRatio) ==
  LET base == BaseResolution(fmt)
  IN CASE aspectRatio = "9:16" -> [width |-> base.baseHeight, height |-> base.baseWidth]
       [] aspectRatio = "1:1"  -> [width |-> base.baseHeight, height |-> base.baseHeight]
       [] OTHER                -> [width |-> base.baseWidth, height |-> base.baseHeight]

\* exportVideo, step 1: the canvas gets the resolution of the preset and the aspect
DetermineResolution ==
  /\ options.format \in ExportFormats \ {"audio_only"}
  /\ frame = NoFrame
  /\ frame' = Resolution(options.format, options.aspectRatio)
  /\ UNCHANGED <<sceneVars, exportVars, playerVars, stopSignal, options,
                 isTypeSupported, negotiated, appVars, retry, generation>>

\* the recorder set-up of exportVideo (after the canvas exists) and of
\* exportAudioOnly: the MIME type is selected and, in onstop, the blob is typed
NegotiateCodec ==
  /\ options.format \in ExportFormats
  /\ options.format # "audio_only" => frame # NoFrame
  /\ negotiated = NoNegotiation
  /\ LET selected == IF options.format = "audio_only"
                       THEN SelectAudioMime(isTypeSupported)
                       ELSE SelectVideoMime(isTypeSupported)
         fallback == IF options.format = "audio_only" THEN "audio/mp4" ELSE "video/mp4"
     IN negotiated' = [selectedMimeType |-> selected,
                       blobType |-> IF selected # "" THEN selected ELSE fallback]
  /\ UNCHANGED <<sceneVars, exportVars, playerVars, stopSignal, options,
                 isTypeSupported, frame, appVars, retry, generation>>

\* a call with any preset and aspect, on a runtime supporting any subset of the
\* listed MIME types
InitSetup ==
  /\ scenes = <<>>
  /\ ExportIdle
  /\ PlayerIdle
  /\ stopSignal = FALSE
  /\ AppIdle
  /\ retry = RetryIdle
  /\ generation = GenerationIdle
  /\ options \in [format : ExportFormats, aspectRatio : ImageAspects]
  /\ isTypeSupported \in SUBSET ListedMimeTypes
  /\ frame = NoFrame
  /\ negotiated = NoNegotiation

NextSetup ==
  \/ DetermineResolution
  \/ NegotiateCodec

SpecSetup == InitSetup /\ [][NextSetup]_vars

-----------------------------------------------------------------------------
(* The export entry points of the App *)

\* most exportVideo calls counted at a time
MaxInFlight == 2

\* Storyboard: readyCount and allReady
ReadyCount == Cardinality({k \in 1..Len(scenes) : scenes[k].status = "ready"})

StoryboardAllReady == ReadyCount = Len(scenes) /\ Len(scenes) > 0

\* the export overlay, `fixed inset-0 z-[100]`, is rendered while isExporting and
\* lies over every button: a pointer reaches a button only without it
PointerReaches == ~isExporting

\* handleExportVideo up to `await exportVideo(...)`: without ready scenes an alert,
\* otherwise setIsExporting(true) and the call (the call itself is the state
\* machine of Spec; here the calls not yet settled are counted)
HandleExportVideo ==
  IF Len(ReadyScenes(scenes)) = 0
    THEN UNCHANGED <<isExporting, inFlight>>
    ELSE /\ inFlight < MaxInFlight
         /\ isExporting' = TRUE
         /\ inFlight' = inFlight + 1

\* header button "Quick Export": rendered in storyboard mode,
\* disabled={isExporting || no scene is ready}
QuickExport ==
  /\ mode = "storyboard"
  /\ PointerReaches
  /\ ~(isExporting \/ ReadyCount = 0)
  /\ HandleExportVideo
  /\ focus' = "quick"
  /\ UNCHANGED <<sceneVars, exportVars, playerVars, stopSignal, setupVars, retry, generation, mode,
                 showExportMenu>>

\* Storyboard button "Export": disabled={!allReady}, toggles the menu
ToggleExportMenu ==
  /\ mode = "storyboard"
  /\ PointerReaches
  /\ StoryboardAllReady
  /\ showExportMenu' = ~showExportMenu
  /\ focus' = "menu"
  /\ UNCHANGED <<sceneVars, exportVars, playerVars, stopSignal, setupVars, retry, generation, mode,
                 isExporting, inFlight>>

\* a menu item, "Video 1080p" or "Video 4K", is clicked: onExport(format).  The
\* menu stays open and the item keeps the keyboard focus.
MenuExportClick ==
  /\ mode = "storyboard"
  /\ PointerReaches
  /\ showExportMenu /\ StoryboardAllReady
  /\ HandleExportVideo
  /\ focus' = "item"
  /\ UNCHANGED <<sceneVars, exportVars, playerVars, stopSignal, setupVars, retry, generation, mode,
                 showExportMenu>>

\* Enter or Space on the focused menu item: a click event on a button that is
\* rendered and not disabled, overlay or not
MenuExportKey ==
  /\ mode = "storyboard"
  /\ showExportMenu /\ StoryboardAllReady
  /\ focus = "item"
  /\ HandleExportVideo
  /\ UNCHANGED <<sceneVars, exportVars, playerVars, stopSignal, setupVars, retry, generation, mode,
                 showExportMenu, focus>>

\* Player button "Export Video": onClick={onExport}, never disabled
PlayerExportClick ==
  /\ mode = "player"
  /\ PointerReaches
  /\ HandleExportVideo
  /\ focus' = "player"
  /\ UNCHANGED <<sceneVars, exportVars, playerVars, stopSignal, setupVars, retry, generation, mode,
                 showExportMenu>>

\* Enter or Space on the focused "Export Video" button
PlayerExportKey ==
  /\ mode = "player"
  /\ focus = "player"
  /\ HandleExportVideo
  /\ UNCHANGED <<sceneVars, exportVars, playerVars, stopSignal, setupVars, retry, generation, mode,
                 showExportMenu, focus>>

\* Storyboard "Preview": disabled={readyCount === 0}; onPreview sets the mode, the
\* Storyboard is unmounted and its menu state with it
OnPreview ==
  /\ mode = "storyboard"
  /\ PointerReaches
  /\ ReadyCount > 0
  /\ mode' = "player"
  /\ showExportMenu' = FALSE
  /\ focus' = "none"
  /\ UNCHANGED <<sceneVars, exportVars, playerVars, stopSignal, setupVars, retry, generation,
                 isExporting, inFlight>>

\* Player onClose: setMode('storyboard')
OnClose ==
  /\ mode = "player"
  /\ PointerReaches
  /\ mode' = "storyboard"
  /\ focus' = "none"
  /\ UNCHANGED <<sceneVars, exportVars, playerVars, stopSignal, setupVars, retry, generation,
                 isExporting, inFlight, showExportMenu>>

\* an exportVideo call settles, resolved or rejected: download or alert, and
\* `finally { setIsExporting(false) }`
ExportSettled ==
  /\ inFlight > 0
  /\ inFlight' = inFlight - 1
  /\ isExporting' = FALSE
  /\ UNCHANGED <<sceneVars, exportVars, playerVars, stopSignal, setupVars, retry, generation, mode,
                 showExportMenu, focus>>

\* the App showing the storyboard of a generated project
InitEntry ==
  /\ scenes \in ExportInputs
  /\ ExportIdle
  /\ PlayerIdle
  /\ OtherIdle

NextEntry ==
  \/ QuickExport
  \/ ToggleExportMenu
  \/ MenuExportClick
  \/ MenuExportKey
  \/ PlayerExportClick
  \/ PlayerExportKey
  \/ OnPreview
  \/ OnClose
  \/ ExportSettled

SpecEntry == InitEntry /\ [][NextEntry]_vars

-----------------------------------------------------------------------------
(* retryWithBackoff *)

\* `retries = 5, delay = 5000`
DefaultRetries == 5
DefaultDelay == 5000

\* errors fn may throw, by what the catch block looks at: status, code,
\* error.code and response.status; whether JSON.stringify(error) and
\* error.message contain '429' or 'RESOURCE_EXHAUSTED'; whether statusText
\* contains 'Too Many Requests'; and whether the error reports a rate limit at
\* all
ErrorShape(status, code, errorCode, responseStatus, json, message, tooMany, rateLimit) ==
  [status |-> status, code |-> code, errorCode |-> errorCode,
   responseStatus |-> responseStatus, json |-> json, message |-> message,
   statusTextTooManyRequests |-> tooMany, rateLimit |-> rateLimit]

\* the errors fn throws: the API's errors carry the HTTP status and a message
\* that quotes the response body; a 400 of the API may quote any number, as in
\* "The input token count (1042931) exceeds the maximum"
Errors ==
  [HttpStatus429 |->
     ErrorShape(429, Undefined, Undefined, Undefined, {"429"}, {}, FALSE, TRUE),
   Code429 |->
     ErrorShape(Undefined, 429, Undefined, Undefined, {"429"}, {}, FALSE, TRUE),
   ApiError429 |->
     ErrorShape(Undefined, Undefined, 429, Undefined, {"429", "RESOURCE_EXHAUSTED"},
                {"429", "RESOURCE_EXHAUSTED"}, FALSE, TRUE),
   Response429 |->
     ErrorShape(Undefined, Undefined, Undefined, 429, {"429"}, {}, TRUE, TRUE),
   ExhaustedMessage |->
     ErrorShape(Undefined, Undefined, Undefined, Undefined, {}, {"RESOURCE_EXHAUSTED"},
                FALSE, TRUE),
   ServerError500 |->
     ErrorShape(500, Undefined, Undefined, Undefined, {}, {}, FALSE, FALSE),
   FailedToFetch |->
     ErrorShape(Undefined, Undefined, Undefined, Undefined, {}, {}, FALSE, FALSE),
   BadRequestTokenCount1042931 |->
     ErrorShape(400, Undefined, Undefined, Undefined, {}, {"429"}, FALSE, FALSE)]

\* isRateLimit of the catch block
IsRateLimit(error) ==
  \/ error.status = 429
  \/ error.code = 429
  \/ error.errorCode = 429
  \/ error.responseStatus = 429
  \/ "429" \in error.json
  \/ "RESOURCE_EXHAUSTED" \in error.json
  \/ "429" \in error.message
  \/ "RESOURCE_EXHAUSTED" \in error.message
  \/ error.statusTextTooManyRequests

\* faulty variant: the delay stays the same
NextDelayConstant(delay) == delay

\* `delay * 2`
NextDelay(delay) == delay * 2

\* retryWithBackoff(fn, retries, delay) up to `await fn()`
RetryWithBackoff(retries, delay, defaults) ==
  /\ retry = RetryIdle
  /\ retry' = [RetryIdle EXCEPT !.phase = "calling", !.retries = retries,
                                !.delay = delay, !.calls = 1, !.defaults = defaults]
  /\ UNCHANGED <<sceneVars, exportVars, playerVars, stopSignal, setupVars, appVars,
                 generation>>

\* fn fulfils: its value is returned
FnFulfilled ==
  /\ retry.phase = "calling"
  /\ retry' = [retry EXCEPT !.phase = "returned"]
  /\ UNCHANGED <<sceneVars, exportVars, playerVars, stopSignal, setupVars, appVars,
                 generation>>

\* fn rejects with the error named e: the catch block.  With retries left and
\* isRateLimit, wait(delay) is started; otherwise the error is rethrown.
FnRejected(e) ==
  /\ retry.phase = "calling"
  /\ retry' =
       IF retry.retries > 0 /\ IsRateLimit(Errors[e])
         THEN [retry EXCEPT !.phase = "waiting", !.error = e,
                            !.waits = Append(@, retry.delay)]
       ELSE [retry EXCEPT !.phase = "thrown", !.error = e, !.thrown = e]
  /\ UNCHANGED <<sceneVars, exportVars, playerVars, stopSignal, setupVars, appVars,
                 generation>>

\* the timer of wait(delay) fires: retryWithBackoff(fn, retries - 1, delay * 2),
\* which calls fn again
WaitElapsed ==
  /\ retry.phase = "waiting"
  /\ retry' = [retry EXCEPT !.phase = "calling", !.retries = @ - 1,
                            !.delay = NextDelay(@), !.calls = @ + 1]
  /\ UNCHANGED <<sceneVars, exportVars, playerVars, stopSignal, setupVars, appVars,
                 generation>>

InitRetry ==
  /\ scenes = <<>>
  /\ ExportIdle
  /\ PlayerIdle
  /\ OtherIdle

NextRetry ==
  \/ RetryWithBackoff(DefaultRetries, DefaultDelay, TRUE)
  \/ \E retries \in 0..2 : RetryWithBackoff(retries, DefaultDelay, FALSE)
  \/ FnFulfilled
  \/ \E e \in DOMAIN Errors : FnRejected(e)
  \/ WaitElapsed

SpecRetry == InitRetry /\ [][NextRetry]_vars

\* retryWithBackoff under the assumptions that every call of fn settles and that
\* the timers fire
LiveSpecRetry ==
  /\ SpecRetry
  /\ WF_vars(FnFulfilled \/ \E e \in DOMAIN Errors : FnRejected(e))
  /\ WF_vars(WaitElapsed)

-----------------------------------------------------------------------------
(* App: the generation pipeline and the scene handlers of the storyboard *)

\* number of scenes analyzeScript returns at most
MaxAnalyzedScenes == 2

\* number of regenerations in flight at most
MaxRegenerations == 2

\* a URL or an error text that is not there (undefined)
NoText == ""

\* a scene as analyzeScript returns it
AnalyzedScene(k) ==
  [id |-> k, sequence |-> k - 1,
   estimatedDuration |-> DefaultDuration,
   manualDuration |-> Undefined,
   imageUrl |-> NoText,
   audioUrl |-> NoText,
   audioDuration |-> Undefined,
   error |-> NoText,
   status |-> "pending"]

\* what startGeneration and the regenerations leave alone
generationFrame ==
  <<exportVars, playerVars, stopSignal, setupVars, retry, isExporting, inFlight,
    showExportMenu, focus>>

\* `newScenes[i].error ? 'error' : 'ready'`
StatusAfterAssets(scene) == IF scene.error # NoText THEN "error" ELSE "ready"

\* the status a successful regeneration sets: `status: 'ready', error: undefined`
StatusAfterRegeneration(scene) == "ready"

\* the loop's `setScenes([...newScenes])`: the state holds the loop's own objects
\* again
SetScenesFromLoop(newScenes, gen) ==
  /\ scenes' = newScenes
  /\ generation' = [gen EXCEPT !.newScenes = newScenes,
                               !.shared = 1..Len(newScenes)]

\* startGeneration up to `await analyzeScript(config)`
StartGeneration ==
  /\ generation.pc = "idle"
  /\ mode = "config"
  /\ mode' = "storyboard"
  /\ generation' = [generation EXCEPT !.pc = "analyzing"]
  /\ UNCHANGED <<sceneVars, generationFrame>>

\* analyzeScript fulfils with n scenes: setScenes(analyzedScenes), a shallow copy
\* newScenes of the same objects, and the first iteration of the loop up to
\* `await generateSceneImage`
AnalysisFulfilled(n) ==
  /\ generation.pc = "analyzing"
  /\ LET analyzed == [k \in 1..n |-> AnalyzedScene(k)]
         gen == [generation EXCEPT !.last = [k \in 1..n |-> "none"]]
     IN IF n = 0
          THEN /\ scenes' = analyzed
               /\ generation' = [gen EXCEPT !.pc = "done"]
          ELSE SetScenesFromLoop([analyzed EXCEPT ![1].status = "generating_image"],
                                 [gen EXCEPT !.pc = "image", !.i = 1])
  /\ UNCHANGED <<generationFrame, mode>>

\* analyzeScript rejects: the outer catch
AnalysisRejected ==
  /\ generation.pc = "analyzing"
  /\ generation' = [generation EXCEPT !.pc = "failed"]
  /\ mode' = "config"
  /\ UNCHANGED <<sceneVars, generationFrame>>

\* generateSceneImage settles: imageUrl or error is written into the loop's
\* object, then status 'generating_audio', setScenes([...newScenes]), up to
\* `await generateSceneAudio`
ImageSettled(ok) ==
  /\ generation.pc = "image"
  /\ LET i == generation.i
         written == IF ok
                      THEN [generation.newScenes EXCEPT ![i].imageUrl = "generated"]
                      ELSE [generation.newScenes EXCEPT
                              ![i].error = "Image generation failed"]
     IN SetScenesFromLoop(
          [written EXCEPT ![i].status = "generating_audio"],
          [generation EXCEPT !.pc = "audio",
                             !.last[i] = IF ok THEN "ok" ELSE "failed"])
  /\ UNCHANGED <<generationFrame, mode>>

\* generateSceneAudio settles.  Fulfilled: audioUrl is written into the loop's
\* object (the state sees it where it still holds that object), up to the await
\* of the metadata probe.  Rejected: error, status 'error',
\* setScenes([...newScenes]), up to the await of the 5 s delay.
AudioSettled(ok) ==
  /\ generation.pc = "audio"
  /\ LET i == generation.i
     IN IF ok
          THEN /\ generation' =
                    [generation EXCEPT !.pc = "metadata",
                                       !.newScenes[i].audioUrl = "generated",
                                       !.last[i] = "ok"]
               /\ scenes' = IF i \in generation.shared
                              THEN [scenes EXCEPT ![i].audioUrl = "generated"]
                              ELSE scenes
          ELSE LET written == [generation.newScenes EXCEPT
                                 ![i].error = "Audio generation failed"]
               IN SetScenesFromLoop(
                    [written EXCEPT ![i].status = StatusAfterAssets(written[i])],
                    [generation EXCEPT !.pc = "delay", !.last[i] = "failed"])
  /\ UNCHANGED <<generationFrame, mode>>

\* the metadata probe resolves, with the duration (onloadedmetadata) or without
\* (onerror, the 2 s timeout): status 'error' or 'ready',
\* setScenes([...newScenes]), up to the await of the 5 s delay
MetadataSettled(known) ==
  /\ generation.pc = "metadata"
  /\ LET i == generation.i
         written == IF known
                      THEN [generation.newScenes EXCEPT
                              ![i].audioDuration = 4 * TicksPerSecond]
                      ELSE generation.newScenes
     IN SetScenesFromLoop(
          [written EXCEPT ![i].status = StatusAfterAssets(written[i])],
          [generation EXCEPT !.pc = "delay"])
  /\ UNCHANGED <<generationFrame, mode>>

\* the 5 s delay ends: the next iteration up to `await generateSceneImage`, or
\* the end of the loop
DelayElapsed ==
  /\ generation.pc = "delay"
  /\ LET i == generation.i + 1
     IN IF i <= Len(generation.newScenes)
          THEN SetScenesFromLoop(
                 [generation.newScenes EXCEPT ![i].status = "generating_image"],
                 [generation EXCEPT !.pc = "image", !.i = i])
          ELSE /\ generation' = [generation EXCEPT !.pc = "done"]
               /\ UNCHANGED scenes
  /\ UNCHANGED <<generationFrame, mode>>

\* handleUpdateScene from the duration field of a storyboard card:
\*   setScenes(prev => prev.map(s => s.id === updatedScene.id ? updatedScene : s))
\* with updatedScene = { ...scene, manualDuration: val }, a new object
HandleUpdateScene(k, val) ==
  /\ mode = "storyboard"
  /\ k \in 1..Len(scenes)
  /\ scenes[k].manualDuration # val
  /\ scenes' = [scenes EXCEPT ![k].manualDuration = val]
  /\ generation' = [generation EXCEPT !.shared = @ \ {k}]
  /\ UNCHANGED <<generationFrame, mode>>

\* the regeneration of the asset of scene k that is in flight
Regeneration(k, asset) ==
  CHOOSE r \in generation.regenerations : r.id = k /\ r.asset = asset

Regenerating(k, asset) ==
  \E r \in generation.regenerations : r.id = k /\ r.asset = asset

\* handleRegenerateImage up to `await generateSceneImage`; the button is on every
\* card.  One regeneration of a scene's image is in flight at a time.
HandleRegenerateImage(k) ==
  /\ mode = "storyboard"
  /\ k \in 1..Len(scenes)
  /\ ~Regenerating(k, "image")
  /\ Cardinality(generation.regenerations) < MaxRegenerations
  /\ scenes' = [scenes EXCEPT ![k].status = "generating_image",
                              ![k].error = NoText]
  /\ generation' =
       [generation EXCEPT
          !.shared = @ \ {k},
          !.regenerations = @ \cup {[id |-> k, asset |-> "image",
                                     audioDuration |-> Undefined]}]
  /\ UNCHANGED <<generationFrame, mode>>

\* generateSceneImage of a regeneration settles: the functional setScenes of the
\* try or of the catch
RegeneratedImageSettled(k, ok) ==
  /\ Regenerating(k, "image")
  /\ scenes' =
       IF ok
         THEN [scenes EXCEPT ![k].imageUrl = "regenerated",
                             ![k].status = StatusAfterRegeneration(scenes[k]),
                             ![k].error = NoText]
         ELSE [scenes EXCEPT ![k].status = "error",
                             ![k].error = "Image generation failed"]
  /\ generation' = [generation EXCEPT !.shared = @ \ {k},
                                      !.regenerations = @ \ {Regeneration(k, "image")},
                                      !.last[k] = IF ok THEN "ok" ELSE "failed"]
  /\ UNCHANGED <<generationFrame, mode>>

\* handleRegenerateAudio up to `await generateSceneAudio`; "Retry Audio" and
\* "Generate Voice" are rendered for a scene without audioUrl that is not
\* 'generating_audio'
HandleRegenerateAudio(k) ==
  /\ mode = "storyboard"
  /\ k \in 1..Len(scenes)
  /\ scenes[k].audioUrl = NoText
  /\ scenes[k].status # "generating_audio"
  /\ ~Regenerating(k, "audio")
  /\ Cardinality(generation.regenerations) < MaxRegenerations
  /\ scenes' = [scenes EXCEPT ![k].status = "generating_audio",
                              ![k].error = NoText]
  /\ generation' =
       [generation EXCEPT
          !.shared = @ \ {k},
          !.regenerations = @ \cup {[id |-> k, asset |-> "audio",
                                     audioDuration |-> scenes[k].audioDuration]}]
  /\ UNCHANGED <<generationFrame, mode>>

\* generateSceneAudio of a regeneration settles and, when it fulfilled, the
\* metadata probe resolves (nothing is written between the two): the functional
\* setScenes of the try or of the catch
RegeneratedAudioSettled(k, ok, known) ==
  /\ Regenerating(k, "audio")
  /\ scenes' =
       IF ok
         THEN [scenes EXCEPT ![k].audioUrl = "regenerated",
                             ![k].audioDuration =
                                IF known THEN 4 * TicksPerSecond ELSE Regeneration(k, "audio").audioDuration,
                             ![k].status = StatusAfterRegeneration(scenes[k]),
                             ![k].error = NoText]
         ELSE [scenes EXCEPT ![k].status = "error",
                             ![k].error = "Audio generation failed"]
  /\ generation' = [generation EXCEPT !.shared = @ \ {k},
                                      !.regenerations = @ \ {Regeneration(k, "audio")},
                                      !.last[k] = IF ok THEN "ok" ELSE "failed"]
  /\ UNCHANGED <<generationFrame, mode>>

\* App as mounted: mode 'config', no scenes
InitGeneration ==
  /\ scenes = <<>>
  /\ ExportIdle
  /\ PlayerIdle
  /\ stopSignal = FALSE
  /\ SetupIdle
  /\ retry = RetryIdle
  /\ generation = GenerationIdle
  /\ isExporting = FALSE
  /\ inFlight = 0
  /\ mode = "config"
  /\ showExportMenu = FALSE
  /\ focus = "none"

NextGeneration ==
  \/ StartGeneration
  \/ \E n \in 0..MaxAnalyzedScenes : AnalysisFulfilled(n)
  \/ AnalysisRejected
  \/ \E ok \in BOOLEAN : ImageSettled(ok)
  \/ \E ok \in BOOLEAN : AudioSettled(ok)
  \/ \E known \in BOOLEAN : MetadataSettled(known)
  \/ DelayElapsed
  \/ \E k \in 1..MaxAnalyzedScenes : HandleUpdateScene(k, 8 * TicksPerSecond)
  \/ \E k \in 1..MaxAnalyzedScenes : HandleRegenerateImage(k)
  \/ \E k \in 1..MaxAnalyzedScenes, ok \in BOOLEAN : RegeneratedImageSettled(k, ok)
  \/ \E k \in 1..MaxAnalyzedScenes : HandleRegenerateAudio(k)
  \/ \E k \in 1..MaxAnalyzedScenes, ok \in BOOLEAN, known \in BOOLEAN :
       RegeneratedAudioSettled(k, ok, known)

SpecGeneration == InitGeneration /\ [][NextGeneration]_vars

-----------------------------------------------------------------------------
(* Properties of the durations and the timelines (SpecTimeline) *)

Largest(S) == CHOOSE x \in S : \A y \in S : y <= x

\* v ?? 0 on a duration input, NaN read as absent
OrZero(v) == IF IsNumber(v) THEN v ELSE 0

\* one second, the floor the specification document names
Floor == 1 * TicksPerSecond

\* max(manualDuration ?? 0, resolvedAudioDuration ?? 0, estimatedDuration ?? 0, floor)
DocumentedDuration(s, audio) ==
  Largest({OrZero(s.manualDuration), OrZero(audio), OrZero(s.estimatedDuration), Floor})

\* the duration input the exporter takes: the manual one when it is a non-zero
\* number, else the estimated one when it is a non-zero number, else 5 seconds
ChosenInput(s) ==
  IF s.manualDuration \notin {Undefined, NaN, 0} THEN s.manualDuration
  ELSE IF s.estimatedDuration \notin {Undefined, NaN, 0} THEN s.estimatedDuration
  ELSE 5 * TicksPerSecond

VideoResolved == pc = "video_timeline"
AudioResolved == pc = "audio_plan"

\* C1 as stated: the exporter gives every scene the duration
\* max(manual or 0, decoded audio or 0, estimated or 0, floor), floor = 1 s,
\* in exportVideo and in exportAudioOnly.
C1_DurationIsMaxOfAllInputs ==
  /\ \A k \in 1..Len(timelineScenes) :
       timelineScenes[k].finalDuration
         = DocumentedDuration(timelineScenes[k].scene, timelineScenes[k].audioBuffer)
  /\ \A k \in 1..Len(audioPlan) :
       audioPlan[k].sceneDuration
         = DocumentedDuration(audioPlan[k].scene, audioPlan[k].buffer)

\* C1 amended: the exporter gives every scene the duration
\* max(decoded audio or 0, d), d being the manual duration when it is a non-zero
\* number, else the estimated duration when it is a non-zero number, else 5 s;
\* the estimated duration is not part of the max once a manual one is set, and
\* there is no 1 s floor.  Both in exportVideo and in exportAudioOnly.
C1_DurationIsMaxOfAudioAndChosenInput ==
  /\ \A k \in 1..Len(timelineScenes) :
       timelineScenes[k].finalDuration
         = Largest({OrZero(timelineScenes[k].audioBuffer),
                    ChosenInput(timelineScenes[k].scene)})
  /\ \A k \in 1..Len(audioPlan) :
       audioPlan[k].sceneDuration
         = Largest({OrZero(audioPlan[k].buffer), ChosenInput(audioPlan[k].scene)})

\* C1 witness: a video export of a scene whose manual duration (0.5 s) is below
\* its estimated duration and below the floor, and that has no audio
C1_Witness ==
  /\ VideoResolved
  /\ Len(timelineScenes) = 1
  /\ timelineScenes[1].scene.manualDuration = 5
  /\ timelineScenes[1].scene.estimatedDuration = 3 * TicksPerSecond
  /\ timelineScenes[1].audioBuffer = Undefined
  /\ timelineScenes[1].finalDuration = 5

\* the scene list of Scenario A: no manual override, audio [4.0, none, 6.5],
\* estimated [5, 3, 6]
IsScenarioA(scns) ==
  /\ Len(scns) = 3
  /\ \A k \in 1..3 : scns[k].manualDuration = Undefined
  /\ <<scns[1].clip, scns[2].clip, scns[3].clip>> = <<40, Undefined, 65>>
  /\ <<scns[1].estimatedDuration, scns[2].estimatedDuration,
       scns[3].estimatedDuration>> = <<50, 30, 60>>

\* C2 as stated: Scenario A: the timeline built for export has finalDurations
\* [4.0, 3, 6.5], start offsets [0, 4.0, 7.0] and total duration 13.5.
C2_ScenarioA ==
  (VideoResolved /\ IsScenarioA(scenes)) =>
     /\ [k \in 1..3 |-> timelineScenes[k].finalDuration] = <<40, 30, 65>>
     /\ [k \in 1..3 |-> timelineScenes[k].startTime] = <<0, 40, 70>>
     /\ totalDuration = 135

\* C2 amended: Scenario A: the first scene lasts its estimated 5 s, which is
\* longer than its 4.0 s of audio, so the timeline built for export has
\* finalDurations [5, 3, 6.5], start offsets [0, 5.0, 8.0] and total 14.5.
C2_ScenarioAEstimateOutlastsAudio ==
  (VideoResolved /\ IsScenarioA(scenes)) =>
     /\ [k \in 1..3 |-> timelineScenes[k].finalDuration] = <<50, 30, 65>>
     /\ [k \in 1..3 |-> timelineScenes[k].startTime] = <<0, 50, 80>>
     /\ [k \in 1..3 |-> timelineScenes[k].endTime] = <<50, 80, 145>>
     /\ totalDuration = 145

\* C2 witness: the export timeline of the Scenario A list has been built
C2_Witness == VideoResolved /\ IsScenarioA(scenes) /\ Len(timelineScenes) = 3

\* C3 as stated (its core): every resolved duration is strictly positive, so no
\* timeline (video export, audio-only export, Player) has a zero-length or
\* negative-length entry.
C3_NoZeroLengthEntry ==
  /\ \A k \in 1..Len(timelineScenes) : timelineScenes[k].finalDuration > 0
  /\ \A k \in 1..Len(audioPlan) : audioPlan[k].sceneDuration > 0
  /\ LET tl == timeline IN \A k \in 1..Len(tl) : tl[k].duration > 0

\* the audio duration a scene is known to have, 0 without audio
ResolvedAudio(a) == OrZero(a)

NextStart(starts, k, total) == IF k < Len(starts) THEN starts[k + 1] ELSE total

RECURSIVE SumOfDurations(_)
SumOfDurations(ds) ==
  IF ds = <<>> THEN 0 ELSE Head(ds) + SumOfDurations(Tail(ds))

\* C6: totalDuration is the sum of the finalDurations of all scenes and the
\* endTime of the last entry; for the empty list it is 0 with no entries
\* (video export, audio-only export and Player).
C6_TotalIsSumOfDurations ==
  /\ VideoResolved =>
       /\ Len(timelineScenes) = Len(scenes)
       /\ totalDuration
            = SumOfDurations([k \in 1..Len(timelineScenes) |->
                                timelineScenes[k].finalDuration])
       /\ Len(timelineScenes) > 0
            => totalDuration = timelineScenes[Len(timelineScenes)].endTime
       /\ scenes = <<>> => (totalDuration = 0 /\ timelineScenes = <<>>)
  /\ AudioResolved =>
       totalDuration
         = SumOfDurations([k \in 1..Len(audioPlan) |-> audioPlan[k].sceneDuration])
  /\ LET tl == timeline
         total == playerTotalDuration
     IN /\ Len(tl) = Len(scenes)
        /\ total = SumOfDurations([k \in 1..Len(tl) |-> PlayerDuration(scenes[k])])
        /\ Len(tl) > 0 => total = tl[Len(tl)].end
        /\ scenes = <<>> => (total = 0 /\ tl = <<>>)

\* C6 witness: the export timeline of three scenes, built, with a positive total
C6_Witness ==
  VideoResolved /\ Len(timelineScenes) = 3 /\ totalDuration = 100

\* C7: the timeline is gapless and in input order: entry 1 starts at 0, every
\* entry starts where the one before ends, endTime = startTime + finalDuration,
\* and entry k is the k-th scene of the input array whatever its sequence field
\* (export timeline and Player timeline).
C7_GaplessInInputOrder ==
  /\ VideoResolved =>
       /\ Len(timelineScenes) = Len(scenes)
       /\ \A k \in 1..Len(timelineScenes) :
            /\ timelineScenes[k].scene = scenes[k]
            /\ timelineScenes[k].startTime
                 = (IF k = 1 THEN 0 ELSE timelineScenes[k - 1].endTime)
            /\ timelineScenes[k].endTime
                 = timelineScenes[k].startTime + timelineScenes[k].finalDuration
  /\ LET tl == timeline IN
     /\ Len(tl) = Len(scenes)
     /\ \A k \in 1..Len(tl) :
          /\ tl[k].scene = scenes[k]
          /\ tl[k].start = (IF k = 1 THEN 0 ELSE tl[k - 1].end)
          /\ tl[k].end = tl[k].start + tl[k].duration

\* C7 witness: an export timeline built from an array whose sequence fields run
\* downwards
C7_Witness ==
  /\ VideoResolved
  /\ Len(timelineScenes) = 3
  /\ timelineScenes[1].scene.sequence > timelineScenes[2].scene.sequence
  /\ timelineScenes[2].startTime > 0

-----------------------------------------------------------------------------
(* Properties of the export run (Spec) *)

\* C8 as stated: the lookup of the render loop returns exactly the entry with
\* start <= t < end; t equal to an entry's end selects the next entry (none
\* after the last one); when no entry contains t, no entry is selected and the
\* fallback is painted.
C8_LookupSelectsContainingOrNextEntry ==
  painted.kind # "none" =>
    LET t == painted.t
        tl == timelineScenes
        Contains(k) == tl[k].startTime <= t /\ t < tl[k].endTime
    IN /\ \A k \in 1..Len(tl) : Contains(k) => painted.scene = k
       /\ \A k \in 1..Len(tl) :
            t = tl[k].endTime => painted.scene = (IF k < Len(tl) THEN k + 1 ELSE 0)
       /\ (\A k \in 1..Len(tl) : ~Contains(k))
            => (painted.scene = 0 /\ painted.kind = "fallback")

\* the stage of the export run, read off the promise and the position of the call
Stage ==
  IF promise = "rejected" THEN "failed"
  ELSE IF promise = "resolved" THEN "complete"
  ELSE CASE pc = "loading" -> "loading_assets"
         [] pc \in {"resuming", "waiting", "hung"} -> "rendering"
         [] pc = "stopping" -> "finalizing"
         [] OTHER -> "idle"

StageOrder ==
  {<<"idle", "loading_assets">>, <<"loading_assets", "rendering">>,
   <<"rendering", "finalizing">>, <<"finalizing", "complete">>,
   <<"loading_assets", "failed">>, <<"rendering", "failed">>,
   <<"finalizing", "failed">>}

RecorderStarted == recorder \in {"recording", "stopping", "stopped"}
RecorderStopCalled == recorder \in {"stopping", "stopped"}
LoopEntered == pc \in {"waiting", "stopping", "done"}
LoopExited == pc \in {"stopping", "done"}

\* C9: an export run passes loading_assets, rendering, finalizing and a terminal
\* state in that order only (failed may follow any of the three stages), no stage
\* is entered again; the recorder is started and the loop entered only when every
\* scene's load has returned, and the recorder is stopped only once the loop is left.
C9_StagesInOrder ==
  [][/\ Stage' # Stage => <<Stage, Stage'>> \in StageOrder
     /\ (RecorderStarted' \/ LoopEntered') => \A k \in 1..Len(task') : task'[k] = "done"
     /\ RecorderStopCalled' => LoopExited'
     /\ RecorderStarted => RecorderStarted'
     /\ LoopExited => LoopExited']_vars

\* C9 witness: a run of several scenes that loaded, rendered, finalized and resolved
C9_Witness ==
  /\ pc = "done"
  /\ promise = "resolved"
  /\ recorder = "stopped"
  /\ Len(timelineScenes) >= 2
  /\ painted.kind = "scene"

\* C10 as stated: the export's outcome is known (or the recorder created) only
\* when every scene's load has settled, as a success or as a failure.
C10_OutcomeOnlyAfterEveryLoadSettled ==
  (promise \in {"rejected", "resolved"} \/ recorder # "none")
     => \A k \in 1..Len(task) : task[k] \in {"done", "failed"}

\* C11 as stated: when the image of a scene is missing or fails to load the export
\* never resolves, and once it has failed the reason names (by its sequence number)
\* a scene whose image is missing or failed.
C11_ImageFailureNamesTheScene ==
  /\ (format = "video" /\ SomeFailed) => promise # "resolved"
  /\ pc = "failed" =>
       \E k \in 1..Len(task) :
         /\ task[k] = "failed"
         /\ reason.sequence = loadedScenes[k].scene.sequence

\* C12 as stated (Scenario C): when the export of a single scene has failed on its
\* image, no capture resource (audio context, media-stream destination, canvas
\* stream, recorder) has been created.
C12_FailedImageCreatesNoCaptureResource ==
  (pc = "failed" /\ Len(task) = 1) => Created = {}

\* the audio of the run has been scheduled (the step of Resumed / AudioResumed)
Scheduled == pc \in {"waiting", "stopping", "done"}

\* per scene of the run: its buffer, its duration and its start offset, as the
\* running export (video or audio only) laid them out
RunEntries ==
  IF format = "video"
    THEN [k \in 1..Len(timelineScenes) |->
            [scene |-> timelineScenes[k].scene, buffer |-> timelineScenes[k].audioBuffer,
             duration |-> timelineScenes[k].finalDuration,
             start |-> timelineScenes[k].startTime]]
    ELSE [k \in 1..Len(audioPlan) |->
            [scene |-> audioPlan[k].scene, buffer |-> audioPlan[k].buffer,
             duration |-> audioPlan[k].sceneDuration, start |-> audioPlan[k].offset]]

\* what the schedule of a run consists of
ScheduleVars ==
  <<format, timelineScenes, audioPlan, totalDuration, sources, audioStartTime>>

SilentScenesKeepTheirSlot ==
  LET e == RunEntries
      starts == [k \in 1..Len(e) |-> e[k].start]
      before(k) == SumOfDurations([j \in 1..(k - 1) |-> e[j].duration])
  IN \A k \in 1..Len(e) :
       IF e[k].buffer = Undefined
         THEN /\ \A src \in sources : src.scene # k
              /\ e[k].duration = MathMax(0, ChosenInput(e[k].scene))
              /\ NextStart(starts, k, totalDuration) = e[k].start + e[k].duration
         ELSE \E src \in sources :
                src.scene = k /\ src.when = audioStartTime + before(k)

\* C13: a scene's audio load never fails the export (its callback always returns,
\* the promise is untouched); when the audio is scheduled, a scene without a
\* buffer has no source and still takes its resolved duration on the timeline, and
\* every scene with a buffer starts at the sum of the durations before it; the
\* schedule stays as it is from then on.
C13_MissingAudioIsSilence ==
  [][/\ \A k \in 1..Len(task) :
          task[k] = "audio" => (k <= Len(task') /\ task'[k] \in {"audio", "done"})
     /\ (\E k \in 1..Len(task) : task[k] = "audio" /\ task'[k] = "done")
          => promise' = promise
     /\ (format' = "audio_only" /\ promise' = "rejected") => blob'.size = "empty"
     /\ (~Scheduled /\ Scheduled') => SilentScenesKeepTheirSlot'
     /\ Scheduled => UNCHANGED ScheduleVars]_vars

\* C13 witness: an audio-only export that resolved although the audio of an
\* earlier scene failed to decode, with a later scene's audio scheduled
C13_Witness ==
  /\ format = "audio_only"
  /\ promise = "resolved"
  /\ \E k, j \in 1..Len(audioPlan) :
       /\ k < j
       /\ audioPlan[k].scene.audioUrl
       /\ audioPlan[k].buffer = Undefined
       /\ audioPlan[k].sceneDuration > 0
       /\ audioPlan[j].buffer # Undefined
       /\ \E src \in sources : src.scene = j /\ src.when > audioStartTime

\* C14: when scheduled, every scene with a buffer has exactly one source, started
\* at audioStartTime + the scene's start offset, and every source belongs to a
\* scene with a buffer; audioStartTime is set in the scheduling step only, to the
\* audio clock of that moment + 0.1 s, so that every start lies strictly after it.
C14_OneSourcePerBufferAtEpochPlusOffset ==
  [][/\ (~Scheduled /\ Scheduled') =>
          LET e == RunEntries' IN
          /\ \A k \in 1..Len(e) :
               e[k].buffer # Undefined =>
                 /\ Cardinality({src \in sources' : src.scene = k}) = 1
                 /\ \A src \in sources' :
                      src.scene = k => /\ src.when = audioStartTime' + e[k].start
                                       /\ src.duration = e[k].buffer
          /\ \A src \in sources' :
               src.scene \in 1..Len(e) /\ e[src.scene].buffer # Undefined
     /\ (~Scheduled /\ Scheduled') =>
          /\ audioStartTime' = clock' + Epoch
          /\ \A src \in sources' : src.when > clock'
     /\ ~Scheduled' => sources' = {}
     /\ Scheduled => (Scheduled' /\ UNCHANGED ScheduleVars)]_vars

\* C14 witness: a video export with a silent scene between two scenes with audio,
\* scheduled when the audio clock was no longer 0
C14_Witness ==
  /\ format = "video"
  /\ Scheduled
  /\ audioStartTime > Epoch
  /\ Len(timelineScenes) = 3
  /\ timelineScenes[2].audioBuffer = Undefined
  /\ timelineScenes[2].finalDuration > 0
  /\ \E s1, s3 \in sources : s1.scene = 1 /\ s3.scene = 3 /\ s3.when > s1.when

\* C15: the audio sources appear in one step, the one in which audioCtx.resume()
\* is continued and which ends with the first pass of the loop: before it there
\* is no source, after it the set of sources is complete (one per buffer) and no
\* later step (loop pass, recorder event) changes it, so the distance between any
\* two sources stays that of their scenes' start offsets.
C15_ScheduledInOnePassBeforeTheLoop ==
  [][/\ sources' # sources => (pc = "resuming" /\ sources = {} /\ ~LoopEntered)
     /\ (~LoopEntered /\ LoopEntered') =>
          LET e == RunEntries' IN
          /\ Cardinality(sources') =
               Cardinality({k \in 1..Len(e) : e[k].buffer # Undefined})
          /\ \A a, b \in sources' :
               a.when - b.when = e[a.scene].start - e[b.scene].start
     /\ LoopEntered => UNCHANGED <<sources, audioStartTime, timelineScenes, audioPlan>>]_vars

\* C15 witness: the loop of a video export has gone on to the second scene, with
\* the sources of both scenes scheduled
C15_Witness ==
  /\ format = "video"
  /\ pc = "waiting"
  /\ painted.scene = 2
  /\ \E a, b \in sources : a.scene = 1 /\ b.scene = 2

\* C16: whenever the render loop of the video export has painted and waits, the
\* time it painted for is max(0, audio clock - audioStartTime) of that pass,
\* whatever the clock advanced by between the passes; the scene it painted is the
\* entry whose [startTime, endTime) contains that time, and, the lead-in of 0.1 s
\* over, the entry whose interval on the audio clock contains the clock (its
\* source, if any, has started).
C16_PaintedSceneFollowsTheAudioClock ==
  (format = "video" /\ pc = "waiting") =>
     /\ painted.t = (IF clock - audioStartTime > 0 THEN clock - audioStartTime ELSE 0)
     /\ painted.kind = "scene" =>
          LET entry == timelineScenes[painted.scene] IN
          /\ entry.startTime <= painted.t /\ painted.t < entry.endTime
          /\ clock >= audioStartTime =>
               /\ audioStartTime + entry.startTime <= clock
               /\ clock < audioStartTime + entry.endTime
               /\ \A src \in sources : src.scene = painted.scene => src.when <= clock

\* C16 witness: the loop paints the third scene at a time inside its interval
C16_Witness ==
  /\ format = "video"
  /\ pc = "waiting"
  /\ painted.kind = "scene"
  /\ painted.scene = 3
  /\ painted.t > timelineScenes[3].startTime
  /\ timelineScenes[1].finalDuration > 0

\* C17 as stated: every call of exportVideo (video or audio only) is eventually
\* settled, resolved or rejected, given that the loads settle, audioCtx.resume()
\* settles (fulfilled or rejected) and the audio clock keeps advancing.
C17_EveryCallSettles ==
  (promise = "pending") ~> (promise \in {"resolved", "rejected"})

\* C18 as stated: when scheduling the audio raised an exception (here: the
\* promise of audioCtx.resume() rejected), the export promise is rejected and the
\* recorder has not been started.
C18_SchedulingErrorAbortsTheExport ==
  pc = "hung" => (promise = "rejected" /\ ~RecorderStarted)

\* C19: the promise is resolved only with a blob that holds data; when the blob
\* assembled by recorder.onstop is empty the promise is rejected (video export and
\* audio-only export).
C19_EmptyBlobIsNeverResolved ==
  /\ promise = "resolved" => blob.size = "data"
  /\ blob.size = "empty" => promise = "rejected"

\* C19 witness: an audio-only export whose recorder delivered nothing is rejected
\* for the empty file, a source having been scheduled
C19_Witness ==
  /\ format = "audio_only"
  /\ blob.size = "empty"
  /\ promise = "rejected"
  /\ reason.msg = "Audio export failed: Empty file"
  /\ sources # {}

\* C20 as stated: a recorder exists only with a MIME type that the runtime
\* accepted, and a resolved blob is labelled with the type the recorder was
\* created with, never with an assumed one.
C20_NoRecorderWithoutNegotiatedType ==
  /\ recorder # "none" => selectedMimeType # ""
  /\ promise = "resolved" => blob.type = selectedMimeType

-----------------------------------------------------------------------------
(* Properties of the set-up of a call (SpecSetup) *)

Negotiated == negotiated # NoNegotiation

\* the preference list of the exporter the options select
PreferenceList ==
  IF options.format = "audio_only" THEN AudioMimeTypes ELSE VideoMimeTypes

\* the positions of the preference list the runtime supports
SupportedPositions ==
  {k \in 1..Len(PreferenceList) : PreferenceList[k] \in isTypeSupported}

\* C21: whatever subset of the listed types the runtime supports, if it supports
\* an entry of the preference list then the selected type is the supported entry
\* with no supported entry before it (so an MP4 entry whenever one is supported,
\* the MP4 entries of the video list being its first three), and the blob is
\* given exactly that type.
C21_EarliestSupportedEntryIsSelected ==
  (Negotiated /\ SupportedPositions # {}) =>
    \E k \in SupportedPositions :
      /\ \A j \in SupportedPositions : k <= j
      /\ negotiated.selectedMimeType = PreferenceList[k]
      /\ negotiated.blobType = PreferenceList[k]
      /\ (options.format # "audio_only" /\ SupportedPositions \cap 1..3 # {}) => k <= 3

\* C21 witness: a runtime supporting the third and the fifth video entry and two
\* audio entries has negotiated a video export: video/mp4 is selected.
C21_Witness ==
  /\ Negotiated
  /\ options.format = "video_1080p"
  /\ isTypeSupported = {"video/mp4", "video/webm", "audio/webm", "audio/ogg"}
  /\ negotiated.blobType = "video/mp4"

LongEdge(f) == IF f.width >= f.height THEN f.width ELSE f.height

ShortEdge(f) == IF f.width >= f.height THEN f.height ELSE f.width

\* the long and the short edge of the base resolution of each preset
BaseLongEdge ==
  [video_720p |-> 1280, video_1080p |-> 1920, video_2k |-> 2560, video_4k |-> 3840]

BaseShortEdge ==
  [video_720p |-> 720, video_1080p |-> 1080, video_2k |-> 1440, video_4k |-> 2160]

\* C22 as stated: for every preset and every aspect ratio the long edge of the
\* frame equals the long edge of the preset's base resolution.
C22_LongEdgeIsPreserved ==
  frame # NoFrame => LongEdge(frame) = BaseLongEdge[options.format]

\* C22 amended: for 16:9 the frame is the base resolution, for 9:16 the base
\* resolution turned by a quarter (long edge preserved in both), and for 1:1 both
\* edges equal the short edge of the base resolution.
C22_LongEdgeIsPreservedUnlessSquare ==
  frame # NoFrame =>
    /\ options.aspectRatio = "16:9" =>
         /\ frame.width = BaseLongEdge[options.format]
         /\ frame.height = BaseShortEdge[options.format]
    /\ options.aspectRatio = "9:16" =>
         /\ frame.height = BaseLongEdge[options.format]
         /\ frame.width = BaseShortEdge[options.format]
    /\ options.aspectRatio = "1:1" =>
         /\ frame.width = BaseShortEdge[options.format]
         /\ frame.height = BaseShortEdge[options.format]

\* C22 witness: the resolution of a square 4K export has been determined.
C22_Witness ==
  /\ options = [format |-> "video_4k", aspectRatio |-> "1:1"]
  /\ frame = [width |-> 2160, height |-> 2160]

-----------------------------------------------------------------------------
(* Properties of the exits of an export (Spec) *)

Settled == promise \in {"resolved", "rejected"}

\* C23: once the promise of an export has settled, on whatever path, its audio
\* context is closed and its recorder is not recording (the captured tracks live
\* as long as these two).
C23_NothingLeftOpenAfterSettling ==
  Settled => (audioCtx \in {"none", "closed"} /\ recorder \notin {"inactive", "recording", "stopping"})

-----------------------------------------------------------------------------
(* Properties of the export entry points (SpecEntry) *)

\* C24: at no time are two exportVideo calls started by handleExportVideo
\* unsettled.
C24_AtMostOneExportInFlight == inFlight <= 1

-----------------------------------------------------------------------------
(* Properties of an export that is to be stopped (SpecAbort) *)

\* C25: once the stop signal has been raised during the render loop, the loop
\* makes no further iteration: nothing more is painted and no further progress is
\* reported.
C25_NoIterationAfterTheStopSignal ==
  [][stopSignal => (painted' = painted /\ progress' = progress)]_vars

-----------------------------------------------------------------------------
(* Properties of the scenarios (Spec) *)

\* exportVideo has been called with an empty scene list
CalledWithNoScenes == pc # "idle" /\ Len(loadedScenes) = 0

\* C26: a call with zero scenes creates and starts no recorder and resolves no
\* blob, and when it has settled it has failed for the lack of scenes.
C26_EmptyListFailsBeforeRecording ==
  CalledWithNoScenes =>
    /\ recorder = "none"
    /\ promise # "resolved"
    /\ Settled => (promise = "rejected" /\ reason.msg = "no scenes to export")

\* exportVideo: recorder.start() is called in the step that reads
\* audioStartTime = audioCtx.currentTime + 0.1, and recorder.stop() in the pass
\* that leaves the loop, after which the clock of the model stands still
RecordedSpan == clock - (audioStartTime - Epoch)

\* a video export of a single scene with an image and without audio has ended
ScenarioDEnded ==
  /\ format = "video"
  /\ pc = "done"
  /\ Len(loadedScenes) = 1
  /\ loadedScenes[1].scene.imageUrl
  /\ ~loadedScenes[1].scene.audioUrl

\* C27: the export of a single scene with an image and no audio has scheduled no
\* audio source, and the audio-clock time between the start and the stop of the
\* recorder is the scene's finalDuration.
C27_SilentSceneIsRecordedForItsDuration ==
  ScenarioDEnded =>
    /\ sources = {}
    /\ RecordedSpan = timelineScenes[1].finalDuration

-----------------------------------------------------------------------------
(* Properties of the progress reports (Spec) *)

\* C28: every percent value passed to onProgress, by either exporter and at every
\* value of the audio clock, is an integer from 0 to 100.
C28_PercentIsBetween0And100 ==
  progress # Undefined => progress \in 0..100

-----------------------------------------------------------------------------
(* Properties of the Player (SpecPlayer) *)

\* C29: a scrub to a time inside the timeline, with the effects it triggers, makes
\* the entry containing that time the current scene and leaves the progress at
\* the time's offset into that entry, whether or not the scene has changed.
C29_ScrubPositionsSceneAndProgress ==
  [][(scrub' # scrub /\ scrub'.targetSceneIndex # 0) =>
       LET entry == timeline[scrub'.targetSceneIndex]
       IN /\ entry.start <= scrub'.targetTime /\ scrub'.targetTime < entry.end
          /\ currentSceneIndex' = scrub'.targetSceneIndex
          /\ sceneTime' = scrub'.targetTime - entry.start]_vars

-----------------------------------------------------------------------------
(* The Player's timeline against the exporter's (SpecTimeline) *)

\* every scene's audioDuration is the duration of its decoded clip (and absent
\* when the scene has no audio)
AudioDurationsAreDecodedDurations ==
  \A k \in 1..Len(scenes) : scenes[k].audioDuration = scenes[k].clip

\* C30: with every audioDuration equal to the decoded duration, the Player's
\* timeline of the scene list and the timeline exportVideo has computed for it
\* agree in every scene's duration, start and end, and in the total duration;
\* likewise the durations and the total of exportAudioOnly.
C30_PlayerTimelineIsExporterTimeline ==
  LET tl == timeline
  IN /\ (VideoResolved /\ AudioDurationsAreDecodedDurations) =>
          /\ Len(tl) = Len(timelineScenes)
          /\ \A k \in 1..Len(tl) :
               /\ tl[k].duration = timelineScenes[k].finalDuration
               /\ tl[k].start = timelineScenes[k].startTime
               /\ tl[k].end = timelineScenes[k].endTime
          /\ playerTotalDuration = totalDuration
     /\ (AudioResolved /\ AudioDurationsAreDecodedDurations) =>
          /\ Len(tl) = Len(audioPlan)
          /\ \A k \in 1..Len(tl) : tl[k].duration = audioPlan[k].sceneDuration
          /\ playerTotalDuration = totalDuration

-----------------------------------------------------------------------------
(* Properties of the playback of the Player (SpecPlayer) *)

\* the audio of the current scene, which lasts longer than its audio, ends
AudioEndsBeforeTheScene ==
  /\ audioRef.state = "playing"
  /\ audioRef'.state = "ended"
  /\ Current
  /\ currentSceneIndex \in 1..Len(scenes)
  /\ timeline[currentSceneIndex].duration > AudioLength

\* C31: when the audio of a scene ends before the scene's duration has elapsed,
\* the scene stays the current scene and the Player keeps playing; the manual
\* timer carries the scene to its end.
C31_EndOfAudioDoesNotEndALongerScene ==
  [][AudioEndsBeforeTheScene =>
       (currentSceneIndex' = currentSceneIndex /\ isPlaying' = isPlaying)]_vars

\* C32: with a non-empty timeline, currentSceneIndex (counted from 1 here) is
\* the index of a timeline entry after every interleaving of skips, scrubs,
\* 'ended' events, animation frames and renders.
C32_CurrentSceneIndexIsInRange ==
  Len(scenes) > 0 => currentSceneIndex \in 1..Len(scenes)

-----------------------------------------------------------------------------
(* Properties of the frames and of the end of the recording (Spec) *)

\* C33: whatever the render loop of an export has painted last, it is a scene of
\* the timeline whose interval contains the elapsed time it was painted for:
\* the fallback frame is never painted.
C33_FallbackIsNeverPainted ==
  painted.kind # "none" =>
    /\ painted.kind = "scene"
    /\ painted.scene \in 1..Len(timelineScenes)
    /\ timelineScenes[painted.scene].startTime <= painted.t
    /\ painted.t < timelineScenes[painted.scene].endTime

\* C33 witness: the loop has painted a scene that follows an entry of length 0.
C33_Witness ==
  /\ painted.kind = "scene"
  /\ painted.scene > 1
  /\ painted.t > timelineScenes[painted.scene].startTime
  /\ \E k \in 1..(painted.scene - 1) : timelineScenes[k].finalDuration = 0

\* recorder.stop() has been called
StopCalled == recorder \in {"stopping", "stopped"}

C35_PercentNeverDecreases ==
  [][progress # Undefined => progress' >= progress]_vars


-----------------------------------------------------------------------------
(* Properties of retryWithBackoff (SpecRetry, LiveSpecRetry) *)

Backoff == <<DefaultDelay, 2 * DefaultDelay, 4 * DefaultDelay, 8 * DefaultDelay,
             16 * DefaultDelay>>

RetrySettled == retry.phase \in {"returned", "thrown"}

RetryWithinItsBudget ==
  retry.defaults =>
    /\ retry.calls <= DefaultRetries + 1
    /\ Len(retry.waits) <= Len(Backoff)
    /\ retry.waits = SubSeq(Backoff, 1, Len(retry.waits))
    /\ retry.calls = Len(retry.waits) + (IF retry.phase = "waiting" THEN 0 ELSE 1)
    /\ retry.phase = "thrown" => retry.thrown = retry.error
    /\ (retry.phase = "thrown" /\ retry.calls = DefaultRetries + 1)
         => retry.retries = 0

\* C36: retryWithBackoff with its default arguments always terminates: fn is
\* called at most 6 times, the waits between the calls are 5000, 10000, 20000,
\* 40000 and 80000 ms in this order, nothing is called or waited for after the
\* first success or after the throw, and what is thrown is the last error of fn.
C36_DefaultRetryTerminates ==
  /\ []RetryWithinItsBudget
  /\ [][(retry.defaults /\ RetrySettled) => retry' = retry]_vars
  /\ (retry.defaults /\ retry.phase = "calling") ~> RetrySettled

\* C36 witness: all retries were used up: six calls, five waits, the last error
\* thrown.
C36_Witness ==
  /\ retry.defaults
  /\ retry.phase = "thrown"
  /\ retry.calls = 6
  /\ retry.waits = <<5000, 10000, 20000, 40000, 80000>>

\* C37: a retry is started only after an error that reports a rate limit; any
\* other error is rethrown after the attempt that produced it, without a wait.
C37_OnlyRateLimitErrorsAreRetried ==
  retry.phase = "waiting" => Errors[retry.error].rateLimit

-----------------------------------------------------------------------------
(* Properties of the generation pipeline and the scene handlers
   (SpecGeneration) *)

Generating(k) == scenes[k].status \in {"generating_image", "generating_audio"}

\* C38: every scene with status 'ready' has an imageUrl, an audioUrl and no error
\* text, and every scene whose last asset generation failed (none being under
\* way for it) has status 'error'.
C38_ReadyScenesAreCompleteAndFailedOnesAreErrors ==
  \A k \in 1..Len(scenes) :
    /\ scenes[k].status = "ready"
         => /\ scenes[k].imageUrl # NoText
            /\ scenes[k].audioUrl # NoText
            /\ scenes[k].error = NoText
    /\ (generation.last[k] = "failed" /\ ~Generating(k))
         => scenes[k].status = "error"

InTheAssetLoop == generation.pc \in {"image", "audio", "metadata", "delay"}

\* C39: while startGeneration is in its asset loop, a manual duration or a
\* regenerated asset of a scene other than the one the loop is working on is
\* still there after every step.
C39_EditsOfOtherScenesArePreserved ==
  [][\A k \in 1..Len(scenes) :
       (InTheAssetLoop /\ k # generation.i /\ k # generation'.i)
         => /\ scenes[k].manualDuration # Undefined
                 => scenes'[k].manualDuration = scenes[k].manualDuration
            /\ scenes[k].imageUrl = "regenerated"
                 => scenes'[k].imageUrl = "regenerated"
            /\ scenes[k].audioUrl = "regenerated"
                 => scenes'[k].audioUrl = "regenerated"]_vars
====
